---- MODULE Spec2Model ----
(***************************************************************************)
(* A model of the A2A weather agent server of                              *)
(* src/02-maf/maf_agents/maf_weather_agent.py: the JSON-RPC handler        *)
(* handle_a2a_request, the keyword router process_weather_query and the    *)
(* JSON values that travel between them.                                   *)
(*                                                                         *)
(* JSON values are tagged records so that 1 and "1", null and a missing    *)
(* key stay distinct: a scalar is [t, v] with t its JSON type and v its    *)
(* text.  Python exceptions are records [type, msg].                       *)
(***************************************************************************)
EXTENDS Integers, Sequences, FiniteSets, TLC

(***************************************************************************)
(* Bounds of the model.                                                    *)
(***************************************************************************)
\* Requests the server receives in one process lifetime.
MaxReq == 2

Slots == 1..MaxReq

(***************************************************************************)
(* JSON scalars as json.loads produces them.                               *)
(***************************************************************************)
JAbsent == [t |-> "absent", v |-> ""]
JNull == [t |-> "null", v |-> ""]
JStr(s) == [t |-> "str", v |-> s]
JNum(s) == [t |-> "num", v |-> s]

\* A string holding a lone surrogate, the JSON text "\ud800": json.loads
\* accepts it, UTF-8 cannot encode it.
Surrogate == "<U+D800>"

\* dict.get(key, default): the default only when the key is missing.
Get(field, default) == IF field.t = "absent" THEN default ELSE field

\* type(x).__name__ of a decoded JSON value.
TypeName(t) ==
    CASE t = "null" -> "NoneType"
      [] t = "str" -> "str"
      [] t = "num" -> "int"
      [] t = "list" -> "list"
      [] OTHER -> "dict"

\* str(x) as an f-string formats it.
Format(x) == IF x.t = "null" THEN "None" ELSE x.v

\* x == "literal" in Python: a str with that text.
PyEq(x, s) == x.t = "str" /\ x.v = s

\* needle in haystack, for Python strings.
Contains(haystack, needle) ==
    \E i \in 1..(Len(haystack) - Len(needle) + 1) :
        SubSeq(haystack, i, i + Len(needle) - 1) = needle

(***************************************************************************)
(* Exceptions.                                                             *)
(***************************************************************************)
NoExc == [type |-> "", msg |-> ""]
Exc(type, msg) == [type |-> type, msg |-> msg]

\* x.get(...) on a value that is not a dict.
NoGet(t) == Exc("AttributeError", "'" \o TypeName(t) \o "' object has no attribute 'get'")

\* The classes the a2a client library raises: all of them subclasses of
\* Exception through A2AClientError.
ClientExceptionClasses ==
    {"A2AClientHTTPError", "A2AClientJSONError", "A2AClientJSONRPCError",
     "A2AClientTimeoutError"}

\* The classes the server's own code raises.
ServerExceptionClasses ==
    {"JSONDecodeError", "AttributeError", "TypeError", "UnicodeEncodeError", "ValueError"}

\* The classes that derive from Exception; KeyboardInterrupt, SystemExit and
\* CancelledError do not.
ExceptionClasses ==
    ServerExceptionClasses \cup ClientExceptionClasses \cup {"EOFError"}

\* F of v, with v evaluated once however often F uses it: Python's
\* assignment of v to a local name.
Bind(v, F(_)) == CHOOSE r \in {F(x) : x \in {v}} : TRUE

(***************************************************************************)
(* Python string operations used by the weather functions.                 *)
(***************************************************************************)
\* The letters str.lower() and str.upper() change, and what they become.
ToLower ==
    "A" :> "a" @@ "B" :> "b" @@ "C" :> "c" @@ "D" :> "d" @@ "E" :> "e" @@
    "F" :> "f" @@ "G" :> "g" @@ "H" :> "h" @@ "I" :> "i" @@ "J" :> "j" @@
    "K" :> "k" @@ "L" :> "l" @@ "M" :> "m" @@ "N" :> "n" @@ "O" :> "o" @@
    "P" :> "p" @@ "Q" :> "q" @@ "R" :> "r" @@ "S" :> "s" @@ "T" :> "t" @@
    "U" :> "u" @@ "V" :> "v" @@ "W" :> "w" @@ "X" :> "x" @@ "Y" :> "y" @@
    "Z" :> "z"

ToUpper ==
    "a" :> "A" @@ "b" :> "B" @@ "c" :> "C" @@ "d" :> "D" @@ "e" :> "E" @@
    "f" :> "F" @@ "g" :> "G" @@ "h" :> "H" @@ "i" :> "I" @@ "j" :> "J" @@
    "k" :> "K" @@ "l" :> "L" @@ "m" :> "M" @@ "n" :> "N" @@ "o" :> "O" @@
    "p" :> "P" @@ "q" :> "Q" @@ "r" :> "R" @@ "s" :> "S" @@ "t" :> "T" @@
    "u" :> "U" @@ "v" :> "V" @@ "w" :> "W" @@ "x" :> "X" @@ "y" :> "Y" @@
    "z" :> "Z"

CharAt(s, i) == SubSeq(s, i, i)

IsUpper(c) == c \in DOMAIN ToLower
IsLower(c) == c \in DOMAIN ToUpper

LowerChar(c) == IF IsUpper(c) THEN ToLower[c] ELSE c

UpperChar(c) == IF IsLower(c) THEN ToUpper[c] ELSE c

RECURSIVE LowerFrom(_, _)
LowerFrom(s, i) ==
    IF i > Len(s) THEN "" ELSE LowerChar(CharAt(s, i)) \o LowerFrom(s, i + 1)

\* str.lower()
Lower(s) == LowerFrom(s, 1)

RECURSIVE UpperFrom(_, _)
UpperFrom(s, i) ==
    IF i > Len(s) THEN "" ELSE UpperChar(CharAt(s, i)) \o UpperFrom(s, i + 1)

\* str.upper()
Upper(s) == UpperFrom(s, 1)

RECURSIVE TitleFrom(_, _, _)
TitleFrom(s, i, inWord) ==
    IF i > Len(s) THEN ""
    ELSE LET c == CharAt(s, i)
             cased == IsUpper(c) \/ IsLower(c)
         IN (IF inWord THEN LowerChar(c) ELSE UpperChar(c))
                \o TitleFrom(s, i + 1, cased)

\* str.title(): the first letter of every run of letters in upper case.
Title(s) == TitleFrom(s, 1, FALSE)

IsSpace(c) == c \in {" ", "\n", "\t"}

RECURSIVE SplitFrom(_, _, _)
SplitFrom(s, i, word) ==
    IF i > Len(s)
    THEN (IF word = "" THEN << >> ELSE << word >>)
    ELSE IF IsSpace(CharAt(s, i))
         THEN (IF word = "" THEN << >> ELSE << word >>) \o SplitFrom(s, i + 1, "")
         ELSE SplitFrom(s, i + 1, word \o CharAt(s, i))

\* str.split(): the words between runs of whitespace.
Split(s) == SplitFrom(s, 1, "")

RECURSIVE Join(_, _)
\* sep.join(items)
Join(sep, items) ==
    IF items = << >> THEN ""
    ELSE IF Len(items) = 1 THEN items[1]
    ELSE items[1] \o sep \o Join(sep, Tail(items))

Digits == "0123456789"

RECURSIVE NatStr(_)
NatStr(n) ==
    IF n < 10 THEN CharAt(Digits, n + 1)
    ELSE NatStr(n \div 10) \o CharAt(Digits, (n % 10) + 1)

\* str(n) of an int.
IntStr(n) == IF n < 0 THEN "-" \o NatStr(0 - n) ELSE NatStr(n)

RECURSIVE StripLeft(_)
StripLeft(s) ==
    IF s # "" /\ IsSpace(CharAt(s, 1)) THEN StripLeft(SubSeq(s, 2, Len(s))) ELSE s

RECURSIVE StripRight(_)
StripRight(s) ==
    IF s # "" /\ IsSpace(CharAt(s, Len(s)))
    THEN StripRight(SubSeq(s, 1, Len(s) - 1))
    ELSE s

\* str.strip()
Strip(s) == StripRight(StripLeft(s))

(***************************************************************************)
(* The weather table and the three weather functions.  The degree sign and *)
(* the pictographs of the answer texts are written in ASCII.               *)
(***************************************************************************)
\* WEATHER_DATA, in the order of its keys.
WEATHER_DATA ==
    << [city |-> "new york", temperature |-> 72, condition |-> "Partly Cloudy",
        humidity |-> 65, wind |-> "10 mph NW"],
       [city |-> "london", temperature |-> 59, condition |-> "Overcast",
        humidity |-> 80, wind |-> "15 mph SW"],
       [city |-> "tokyo", temperature |-> 78, condition |-> "Clear",
        humidity |-> 55, wind |-> "5 mph E"],
       [city |-> "paris", temperature |-> 68, condition |-> "Sunny",
        humidity |-> 45, wind |-> "8 mph N"],
       [city |-> "sydney", temperature |-> 65, condition |-> "Rainy",
        humidity |-> 90, wind |-> "20 mph SE"] >>

\* WEATHER_DATA.keys()
Cities == [k \in DOMAIN WEATHER_DATA |-> WEATHER_DATA[k].city]

\* city in WEATHER_DATA
InWeatherData(city) == \E k \in DOMAIN WEATHER_DATA : WEATHER_DATA[k].city = city

\* WEATHER_DATA[city]
WeatherOf(city) ==
    WEATHER_DATA[CHOOSE k \in DOMAIN WEATHER_DATA : WEATHER_DATA[k].city = city]

\* ', '.join(c.title() for c in WEATHER_DATA.keys())
AvailableCities == Join(", ", [k \in DOMAIN Cities |-> Title(Cities[k])])

\* round((f - 32) * 5 / 9, 1) as Python prints it.
Celsius(f) ==
    LET tenths == ((f - 32) * 100 + 9) \div 18
    IN IntStr(tenths \div 10) \o "." \o IntStr(tenths % 10)

get_current_weather(city) ==
    Bind(Strip(Lower(city)), LAMBDA city_lower :
        IF InWeatherData(city_lower)
        THEN Bind(WeatherOf(city_lower), LAMBDA data :
                [success |-> TRUE,
                 city |-> Title(city),
                 temperature_f |-> data.temperature,
                 temperature_c |-> Celsius(data.temperature),
                 condition |-> data.condition,
                 humidity |-> IntStr(data.humidity) \o "%",
                 wind |-> data.wind,
                 message |-> "Current weather in " \o Title(city) \o ": "
                               \o IntStr(data.temperature) \o "degF, " \o data.condition])
        ELSE [success |-> FALSE,
              city |-> city,
              temperature_f |-> 0,
              temperature_c |-> "",
              condition |-> "",
              humidity |-> "",
              wind |-> "",
              message |-> "Weather data not available for " \o city
                            \o ". Available cities: " \o AvailableCities])

\* date.strftime("%A") for the weekday numbers of datetime.weekday().
DayNames ==
    << "Monday", "Tuesday", "Wednesday", "Thursday", "Friday", "Saturday", "Sunday" >>

\* conditions of get_weather_forecast
ForecastConditions == << "Sunny", "Partly Cloudy", "Cloudy", "Rainy", "Clear" >>

\* One entry of the forecast list, for i of range(days).  today is the
\* weekday of datetime.now(), h is hash(city_lower), which Python draws per
\* process.  The calendar date of the entry is left out: no answer shows it.
ForecastEntry(base, i, today, h) ==
    Bind(((i * 3) % 10) - 5, LAMBDA temp_variation :
        [day |-> DayNames[((today + i + 1) % Len(DayNames)) + 1],
         high_f |-> base.temperature + temp_variation + 5,
         low_f |-> base.temperature + temp_variation - 10,
         condition |-> ForecastConditions[((i + h) % Len(ForecastConditions)) + 1]])

\* for i in range(days): forecast.append(...)
ForecastList(base, days, today, h) ==
    [k \in 1..days |-> ForecastEntry(base, k - 1, today, h)]

get_weather_forecast(city, days, today, h) ==
    Bind(Strip(Lower(city)), LAMBDA city_lower :
        IF ~InWeatherData(city_lower)
        THEN [success |-> FALSE,
              city |-> city,
              days |-> 0,
              forecast |-> << >>,
              message |-> "Forecast not available for " \o city]
        ELSE [success |-> TRUE,
              city |-> Title(city),
              days |-> days,
              forecast |-> Bind(WeatherOf(city_lower), LAMBDA base :
                               ForecastList(base, days, today, h)),
              message |-> IntStr(days) \o "-day forecast for " \o Title(city)
                            \o " generated"])

\* alerts of get_weather_alerts
SimulatedAlerts(city_lower) ==
    CASE city_lower = "sydney" ->
            << [type |-> "Rain Warning", severity |-> "Moderate",
                message |-> "Heavy rain expected this afternoon"] >>
      [] city_lower = "london" ->
            << [type |-> "Wind Advisory", severity |-> "Low",
                message |-> "Gusty winds possible tonight"] >>
      [] OTHER -> << >>

get_weather_alerts(city) ==
    Bind(SimulatedAlerts(Strip(Lower(city))), LAMBDA city_alerts :
        [success |-> TRUE,
         city |-> Title(city),
         alerts |-> city_alerts,
         alert_count |-> Len(city_alerts),
         message |-> IF city_alerts # << >>
                     THEN IntStr(Len(city_alerts)) \o " active alert(s) for "
                              \o Title(city)
                     ELSE "No active alerts for " \o Title(city)])

(***************************************************************************)
(* process_weather_query: the keyword router.                              *)
(***************************************************************************)
\* Python's None for the city variable; no key of WEATHER_DATA is empty.
NoCity == ""

\* CityBySubstring taking the city that comes first in the query.
CityEarliestInQuery(query_lower) ==
    Bind({k \in DOMAIN Cities : Contains(query_lower, Cities[k])}, LAMBDA hits :
        IF hits = {} THEN NoCity
        ELSE Bind([k \in hits |->
                      CHOOSE p \in 1..Len(query_lower) :
                          /\ SubSeq(query_lower, p, p + Len(Cities[k]) - 1) = Cities[k]
                          /\ \A q \in 1..(p - 1) :
                                 SubSeq(query_lower, q, q + Len(Cities[k]) - 1) # Cities[k]],
                  LAMBDA at : Cities[CHOOSE k \in hits : \A j \in hits : at[k] <= at[j]]))

\* for c in WEATHER_DATA.keys(): if c in query_lower: city = c; break
CityBySubstring(query_lower) ==
    Bind({k \in DOMAIN Cities : Contains(query_lower, Cities[k])}, LAMBDA hits :
        IF hits = {} THEN NoCity
        ELSE Cities[CHOOSE k \in hits : \A j \in hits : k <= j])

\* for word in query.split(): if word.lower() in WEATHER_DATA: ...; break
CityByWord(query) ==
    Bind(Split(query), LAMBDA words :
        Bind({k \in DOMAIN words : InWeatherData(Lower(words[k]))}, LAMBDA hits :
            IF hits = {} THEN NoCity
            ELSE Lower(words[CHOOSE k \in hits : \A j \in hits : k <= j])))

\* The city of the query: by substring, and only if none, by word.
FindCity(query, query_lower) ==
    Bind(CityBySubstring(query_lower), LAMBDA city :
        IF city = NoCity THEN CityByWord(query) ELSE city)

\* ForecastDays looking for the week before the five days.
ForecastDaysWeekFirst(query, query_lower) ==
    IF Contains(query, "7") \/ Contains(query_lower, "week") THEN 7
    ELSE IF Contains(query, "5") \/ Contains(query_lower, "five") THEN 5
    ELSE 3

\* The days asked of get_weather_forecast.
ForecastDays(query, query_lower) ==
    IF Contains(query, "5") \/ Contains(query_lower, "five") THEN 5
    ELSE IF Contains(query, "7") \/ Contains(query_lower, "week") THEN 7
    ELSE 3

ForecastLine(f) ==
    f.day \o ": " \o f.condition \o ", High: " \o IntStr(f.high_f)
        \o "degF, Low: " \o IntStr(f.low_f) \o "degF"

AlertLine(a) == "! " \o a.type \o " (" \o a.severity \o "): " \o a.message

\* The forecast branch, once the city is known.
ForecastAnswer(query, query_lower, city, today, h) ==
    IF city # NoCity
    THEN Bind(get_weather_forecast(city, ForecastDays(query, query_lower), today, h),
              LAMBDA result :
                IF result.success
                THEN "Weather forecast for " \o Title(city) \o ":\n"
                        \o Join("\n", [k \in DOMAIN result.forecast |->
                                          ForecastLine(result.forecast[k])])
                ELSE result.message)
    ELSE "Please specify a city for the forecast. Available cities: " \o AvailableCities

\* The alerts branch.
AlertsAnswer(city) ==
    IF city # NoCity
    THEN Bind(get_weather_alerts(city), LAMBDA result :
            IF result.alerts # << >>
            THEN "Weather alerts for " \o Title(city) \o ":\n"
                    \o Join("\n", [k \in DOMAIN result.alerts |->
                                      AlertLine(result.alerts[k])])
            ELSE "No active weather alerts for " \o Title(city) \o ".")
    ELSE "Please specify a city to check for weather alerts."

\* CurrentAnswer naming the city by its key in WEATHER_DATA.
CurrentAnswerByKey(city) ==
    IF city # NoCity
    THEN Bind(get_current_weather(city), LAMBDA result :
            IF result.success
            THEN "Current weather in " \o city \o ":\n"
                    \o "Temperature: " \o IntStr(result.temperature_f) \o "degF ("
                    \o result.temperature_c \o "degC)\n"
                    \o "Condition: " \o result.condition \o "\n"
                    \o "Humidity: " \o result.humidity \o "\n"
                    \o "Wind: " \o result.wind
            ELSE result.message)
    ELSE "Please specify a city. Available cities: " \o AvailableCities

\* The current-weather branch.
CurrentAnswer(city) ==
    IF city # NoCity
    THEN Bind(get_current_weather(city), LAMBDA result :
            IF result.success
            THEN "Current weather in " \o result.city \o ":\n"
                    \o "Temperature: " \o IntStr(result.temperature_f) \o "degF ("
                    \o result.temperature_c \o "degC)\n"
                    \o "Condition: " \o result.condition \o "\n"
                    \o "Humidity: " \o result.humidity \o "\n"
                    \o "Wind: " \o result.wind
            ELSE result.message)
    ELSE "Please specify a city. Available cities: " \o AvailableCities

\* The default response.
HelpAnswer ==
    "I'm a weather agent! I can help you with:\n"
        \o "- Current weather conditions\n"
        \o "- Weather forecasts (up to 7 days)\n"
        \o "- Weather alerts and warnings\n\n"
        \o "Available cities: " \o AvailableCities \o "\n\n"
        \o "Try asking: 'What's the weather in Tokyo?' or 'Get the forecast for London'"

\* What datetime.now().weekday() and hash(city_lower) may be.
Weekdays == 0..(Len(DayNames) - 1)
HashResidues == 0..(Len(ForecastConditions) - 1)

\* AnswersFor looking for alert and warning before forecast.
AnswersForAlertsFirst(query, query_lower, city) ==
    IF Contains(query_lower, "alert") \/ Contains(query_lower, "warning")
    THEN {AlertsAnswer(city)}
    ELSE IF Contains(query_lower, "forecast")
    THEN IF city # NoCity
         THEN {ForecastAnswer(query, query_lower, city, today, h) :
                  today \in Weekdays, h \in HashResidues}
         ELSE {ForecastAnswer(query, query_lower, city, 0, 0)}
    ELSE IF city # NoCity \/ Contains(query_lower, "weather")
               \/ Contains(query_lower, "temperature")
    THEN {CurrentAnswer(city)}
    ELSE {HelpAnswer}

\* The if/elif chain on the keywords, for a query whose city is known.
AnswersFor(query, query_lower, city) ==
    IF Contains(query_lower, "forecast")
    THEN IF city # NoCity
         THEN {ForecastAnswer(query, query_lower, city, today, h) :
                  today \in Weekdays, h \in HashResidues}
         ELSE {ForecastAnswer(query, query_lower, city, 0, 0)}
    ELSE IF Contains(query_lower, "alert") \/ Contains(query_lower, "warning")
    THEN {AlertsAnswer(city)}
    ELSE IF city # NoCity \/ Contains(query_lower, "weather")
               \/ Contains(query_lower, "temperature")
    THEN {CurrentAnswer(city)}
    ELSE {HelpAnswer}

\* The weather function the chain calls: each branch calls its function
\* under "if city:" and none otherwise; the default calls none.
NoCall == "none"
WeatherCall(query_lower, city) ==
    IF city = NoCity THEN NoCall
    ELSE IF Contains(query_lower, "forecast") THEN "get_weather_forecast"
    ELSE IF Contains(query_lower, "alert") \/ Contains(query_lower, "warning")
    THEN "get_weather_alerts"
    ELSE "get_current_weather"

\* The answers a query that is a str may get: one, except for a forecast,
\* whose day names and conditions follow the weekday of datetime.now() and
\* hash(city_lower), which Python draws per process.
process_weather_query(query) ==
    Bind(Lower(query), LAMBDA query_lower :
        Bind(FindCity(query, query_lower), LAMBDA city :
            AnswersFor(query, query_lower, city)))

(***************************************************************************)
(* Request bodies.  A body is the text the client posted: not JSON at all, *)
(* JSON that is no object, or an object with the keys method, params, id.  *)
(* params, message, task and parts carry their JSON type in t.             *)
(***************************************************************************)
AbsentParts == [t |-> "absent", items |-> << >>]
NullParts == [t |-> "null", items |-> << >>]
ListParts(items) == [t |-> "list", items |-> items]

AbsentMsg == [t |-> "absent", parts |-> AbsentParts]
NullMsg == [t |-> "null", parts |-> AbsentParts]
ObjMsg(parts) == [t |-> "obj", parts |-> parts]

AbsentTask == [t |-> "absent", message |-> AbsentMsg]
NullTask == [t |-> "null", message |-> AbsentMsg]
ObjTask(message) == [t |-> "obj", message |-> message]

AbsentParams == [t |-> "absent", message |-> AbsentMsg, task |-> AbsentTask]
NullParams == [t |-> "null", message |-> AbsentMsg, task |-> AbsentTask]
ListParams == [t |-> "list", message |-> AbsentMsg, task |-> AbsentTask]
ObjParams(message, task) == [t |-> "obj", message |-> message, task |-> task]

\* A part that is an object with the keys kind and text, and one that is a
\* JSON string.
ObjPart(kind, text) == [t |-> "obj", kind |-> kind, text |-> text]
StrPart == [t |-> "str", kind |-> JAbsent, text |-> JAbsent]

TextPart(text) == ObjPart(JStr("text"), JStr(text))
DataPart == ObjPart(JStr("data"), JAbsent)

InvalidBody ==
    [kind |-> "invalid", method |-> JAbsent, params |-> AbsentParams, id |-> JAbsent]
ListBody ==
    [kind |-> "list", method |-> JAbsent, params |-> AbsentParams, id |-> JAbsent]
ObjBody(method, params, id) ==
    [kind |-> "obj", method |-> method, params |-> params, id |-> id]

(***************************************************************************)
(* Response envelopes, as the dicts handed to JSONResponse.                *)
(***************************************************************************)
\* TextParts with a data part after the text part.
TextPartsWithData(text) ==
    << [kind |-> "text", text |-> text], [kind |-> "data", text |-> ""] >>

TextParts(text) == << [kind |-> "text", text |-> text] >>

MessageEnvelope(request_id, response_text) ==
    [jsonrpc |-> "2.0",
     id |-> request_id,
     result |-> [message |-> [role |-> "agent", parts |-> TextParts(response_text)]]]

\* TaskEnvelope answering before the task is done.
TaskEnvelopeStillWorking(request_id, response_text) ==
    [jsonrpc |-> "2.0",
     id |-> request_id,
     result |-> [id |-> "task-" \o Format(request_id),
                 status |-> [state |-> "working"],
                 artifacts |-> << [parts |-> TextParts(response_text)] >>]]

TaskEnvelope(request_id, response_text) ==
    [jsonrpc |-> "2.0",
     id |-> request_id,
     result |-> [id |-> "task-" \o Format(request_id),
                 status |-> [state |-> "completed"],
                 artifacts |-> << [parts |-> TextParts(response_text)] >>]]

\* MethodNotFoundEnvelope with a result key beside the error.
MethodNotFoundWithResult(request_id, method) ==
    [jsonrpc |-> "2.0",
     id |-> request_id,
     result |-> [message |-> [role |-> "agent", parts |-> TextParts("")]],
     error |-> [code |-> -32601, message |-> "Method not found: " \o Format(method)]]

MethodNotFoundEnvelope(request_id, method) ==
    [jsonrpc |-> "2.0",
     id |-> request_id,
     error |-> [code |-> -32601, message |-> "Method not found: " \o Format(method)]]

\* ErrorEnvelope hiding the text of the exception.
ErrorEnvelopeGeneric(e) ==
    [jsonrpc |-> "2.0",
     id |-> JStr("error"),
     error |-> [code |-> -32000, message |-> "Internal error"]]

\* The envelope of the except clause.
ErrorEnvelope(e) ==
    [jsonrpc |-> "2.0",
     id |-> JStr("error"),
     error |-> [code |-> -32000, message |-> e.msg]]

IsError(r) == "error" \in DOMAIN r
IsSuccess(r) == "result" \in DOMAIN r
IsMessageResult(r) == IsSuccess(r) /\ "message" \in DOMAIN r.result
IsTaskResult(r) == IsSuccess(r) /\ "artifacts" \in DOMAIN r.result

\* The strings of an envelope that come from the request or from the router.
EnvelopeStrings(c) ==
    {c.id.v} \cup
    (IF IsError(c) THEN {c.error.message}
     ELSE IF IsMessageResult(c)
          THEN {c.result.message.parts[k].text : k \in DOMAIN c.result.message.parts}
          ELSE {c.result.id} \cup
               UNION {{a.parts[k].text : k \in DOMAIN a.parts} :
                         a \in {c.result.artifacts[j] : j \in DOMAIN c.result.artifacts}})

\* JSONResponse(content=c): the constructor renders c with json.dumps and
\* encodes the text as UTF-8, which a lone surrogate makes fail.  The
\* position the message names is left out.
JSONResponse(c) ==
    IF \E str \in EnvelopeStrings(c) : Contains(str, Surrogate)
    THEN [exc |-> Exc("UnicodeEncodeError",
                      "'utf-8' codec can't encode character '\\ud800': surrogates not allowed"),
          content |-> c]
    ELSE [exc |-> NoExc, content |-> c]

(***************************************************************************)
(* handle_a2a_request, in the three stretches between its awaits.          *)
(* An outcome names where the handler stands after the stretch: at the     *)
(* next await ("routed", "handled"), returned ("responded") or left by an  *)
(* exception nothing caught ("escaped").                                   *)
(***************************************************************************)
NoResp == [none |-> TRUE]

NoFrame ==
    [method |-> JAbsent, request_id |-> JAbsent, user_text |-> JAbsent,
     response_text |-> ""]

Outcome(next, frame, resp, raised) ==
    [next |-> next, frame |-> frame, resp |-> resp, raised |-> raised]

\* An except clause for ValueError and its subclasses alone.
CatchesValueError(e) == e.type \in {"JSONDecodeError", "UnicodeEncodeError", "ValueError"}

\* except Exception as e
Catches(e) == e.type \in ExceptionClasses

\* An exception raised inside the try block: the except clause answers it,
\* unless the clause does not catch it or its own JSONResponse raises.
Raise(frame, e) ==
    Bind(JSONResponse(ErrorEnvelope(e)), LAMBDA r :
        IF Catches(e) /\ r.exc = NoExc
        THEN Outcome("responded", frame, r.content, e)
        ELSE Outcome("escaped", frame, NoResp, e))

\* return JSONResponse(content=c), inside the try block.
Return(frame, c) ==
    Bind(JSONResponse(c), LAMBDA r :
        IF r.exc = NoExc
        THEN Outcome("responded", frame, r.content, NoExc)
        ELSE Raise(frame, r.exc))

\* Decode with null as the id of a body that has none.
DecodeDefaultNull(b) ==
    IF b.kind = "invalid"
    THEN [exc |-> Exc("JSONDecodeError", "Expecting value: line 1 column 1 (char 0)"),
          method |-> JAbsent, params |-> AbsentParams, request_id |-> JAbsent]
    ELSE IF b.kind # "obj"
    THEN [exc |-> NoGet(b.kind),
          method |-> JAbsent, params |-> AbsentParams, request_id |-> JAbsent]
    ELSE [exc |-> NoExc,
          method |-> Get(b.method, JStr("")),
          params |-> Get(b.params, ObjParams(AbsentMsg, AbsentTask)),
          request_id |-> Get(b.id, JNull)]

\* body = await request.json(), then the three body.get calls.
Decode(b) ==
    IF b.kind = "invalid"
    THEN [exc |-> Exc("JSONDecodeError", "Expecting value: line 1 column 1 (char 0)"),
          method |-> JAbsent, params |-> AbsentParams, request_id |-> JAbsent]
    ELSE IF b.kind # "obj"
    THEN [exc |-> NoGet(b.kind),
          method |-> JAbsent, params |-> AbsentParams, request_id |-> JAbsent]
    ELSE [exc |-> NoExc,
          method |-> Get(b.method, JStr("")),
          params |-> Get(b.params, ObjParams(AbsentMsg, AbsentTask)),
          request_id |-> Get(b.id, JStr("1"))]

RECURSIVE FirstText(_)
\* The loop over parts: the text of the first part whose kind is "text".
FirstText(items) ==
    IF items = << >> THEN [exc |-> NoExc, text |-> JStr("")]
    ELSE IF Head(items).t # "obj" THEN [exc |-> NoGet(Head(items).t), text |-> JStr("")]
    ELSE IF PyEq(Head(items).kind, "text")
         THEN [exc |-> NoExc, text |-> Get(Head(items).text, JStr(""))]
         ELSE FirstText(Tail(items))

\* MessageText with the loop running over the parts from the last one.
MessageTextLastWins(message) ==
    IF message.t # "obj" THEN [exc |-> NoGet(message.t), text |-> JStr("")]
    ELSE Bind(Get(message.parts, ListParts(<< >>)), LAMBDA parts :
            IF parts.t # "list"
            THEN [exc |-> Exc("TypeError",
                              "'" \o TypeName(parts.t) \o "' object is not iterable"),
                  text |-> JStr("")]
            ELSE FirstText([k \in 1..Len(parts.items) |->
                               parts.items[Len(parts.items) + 1 - k]]))

\* parts = message.get("parts", []) and the loop over it.
MessageText(message) ==
    IF message.t # "obj" THEN [exc |-> NoGet(message.t), text |-> JStr("")]
    ELSE Bind(Get(message.parts, ListParts(<< >>)), LAMBDA parts :
            IF parts.t # "list"
            THEN [exc |-> Exc("TypeError",
                              "'" \o TypeName(parts.t) \o "' object is not iterable"),
                  text |-> JStr("")]
            ELSE FirstText(parts.items))

\* The message/send branch up to its await.
MessageSendText(params) ==
    IF params.t # "obj" THEN [exc |-> NoGet(params.t), text |-> JStr("")]
    ELSE MessageText(Get(params.message, ObjMsg(AbsentParts)))

\* TasksSendText reading the parts of the task from the last one.
TasksSendTextLastWins(params) ==
    IF params.t # "obj" THEN [exc |-> NoGet(params.t), text |-> JStr("")]
    ELSE Bind(Get(params.task, ObjTask(AbsentMsg)), LAMBDA task :
            IF task.t # "obj" THEN [exc |-> NoGet(task.t), text |-> JStr("")]
            ELSE MessageTextLastWins(Get(task.message, ObjMsg(AbsentParts))))

\* The tasks/send branch up to its await.
TasksSendText(params) ==
    IF params.t # "obj" THEN [exc |-> NoGet(params.t), text |-> JStr("")]
    ELSE Bind(Get(params.task, ObjTask(AbsentMsg)), LAMBDA task :
            IF task.t # "obj" THEN [exc |-> NoGet(task.t), text |-> JStr("")]
            ELSE MessageText(Get(task.message, ObjMsg(AbsentParts))))

\* From the start of the handler to the first process_weather_query await,
\* or to the response when there is none.
\* The branch of the method up to its await: the text of the query found,
\* or the exception raised on the way.
BranchText(method, params) ==
    IF PyEq(method, "message/send")
    THEN MessageSendText(params)
    ELSE TasksSendText(params)

\* RouteStep without the match on the method: every object body is handed
\* to the tasks/send branch.
RouteStepAnyMethod(b) ==
    Bind(Decode(b), LAMBDA d :
        Bind([NoFrame EXCEPT !.method = d.method, !.request_id = d.request_id],
             LAMBDA frame :
                IF d.exc # NoExc THEN Raise(NoFrame, d.exc)
                ELSE Bind(BranchText(d.method, d.params), LAMBDA x :
                        IF x.exc # NoExc THEN Raise(frame, x.exc)
                        ELSE Outcome("routed", [frame EXCEPT !.user_text = x.text],
                                     NoResp, NoExc))))

RouteStep(b) ==
    Bind(Decode(b), LAMBDA d :
        Bind([NoFrame EXCEPT !.method = d.method, !.request_id = d.request_id],
             LAMBDA frame :
                IF d.exc # NoExc THEN Raise(NoFrame, d.exc)
                ELSE IF PyEq(d.method, "message/send") \/ PyEq(d.method, "tasks/send")
                THEN Bind(BranchText(d.method, d.params), LAMBDA x :
                        IF x.exc # NoExc THEN Raise(frame, x.exc)
                        ELSE Outcome("routed", [frame EXCEPT !.user_text = x.text],
                                     NoResp, NoExc))
                ELSE Return(frame, MethodNotFoundEnvelope(d.request_id, d.method))))

\* HandleStep raising when the query names no city.
HandleStepMissRaises(frame) ==
    IF frame.user_text.t # "str"
    THEN {Raise(frame, Exc("AttributeError",
                           "'" \o TypeName(frame.user_text.t)
                               \o "' object has no attribute 'lower'"))}
    ELSE IF FindCity(frame.user_text.v, Lower(frame.user_text.v)) = NoCity
    THEN {Raise(frame, Exc("ValueError", "no skill matches the query"))}
    ELSE {Outcome("handled", [frame EXCEPT !.response_text = answer], NoResp, NoExc) :
             answer \in process_weather_query(frame.user_text.v)}

\* await process_weather_query(user_text): query.lower() needs a str.  The
\* outcomes the await may have.
HandleStep(frame) ==
    IF frame.user_text.t # "str"
    THEN {Raise(frame, Exc("AttributeError",
                           "'" \o TypeName(frame.user_text.t)
                               \o "' object has no attribute 'lower'"))}
    ELSE {Outcome("handled", [frame EXCEPT !.response_text = answer], NoResp, NoExc) :
             answer \in process_weather_query(frame.user_text.v)}

\* The return of the message/send or tasks/send branch.
RespondStep(frame) ==
    IF PyEq(frame.method, "message/send")
    THEN Return(frame, MessageEnvelope(frame.request_id, frame.response_text))
    ELSE Return(frame, TaskEnvelope(frame.request_id, frame.response_text))

(***************************************************************************)
(* The agent card and its rendering by JSONResponse: json.dumps with the   *)
(* separators "," and ":", the keys in the order of the dict.  No string   *)
(* of the card needs an escape.                                            *)
(***************************************************************************)
Skill(id, name, description, tags) ==
    [id |-> id, name |-> name, description |-> description, tags |-> tags]

AGENT_CARD ==
    [name |-> "weather_agent",
     description |-> "A weather information agent that provides current conditions, forecasts, and weather alerts for major cities worldwide.",
     url |-> "http://localhost:8002",
     version |-> "1.0.0",
     protocolVersion |-> "0.2.6",
     defaultInputModes |-> << "text/plain" >>,
     defaultOutputModes |-> << "text/plain", "application/json" >>,
     skills |->
        << Skill("current_weather", "Current Weather",
                 "Get current weather conditions for a city including temperature, humidity, and wind",
                 << "weather", "current", "temperature" >>),
           Skill("weather_forecast", "Weather Forecast",
                 "Get multi-day weather forecast for a city",
                 << "weather", "forecast", "prediction" >>),
           Skill("weather_alerts", "Weather Alerts",
                 "Get active weather alerts and warnings for a city",
                 << "weather", "alerts", "warnings" >>) >>]

\* json.dumps of a str, of a key with its value, of a list of str.
DumpStr(str) == "\"" \o str \o "\""
DumpPair(key, dumped) == DumpStr(key) \o ":" \o dumped
DumpStrList(items) == "[" \o Join(",", [k \in DOMAIN items |-> DumpStr(items[k])]) \o "]"

DumpSkill(skill) ==
    "{" \o Join(",", << DumpPair("id", DumpStr(skill.id)),
                       DumpPair("name", DumpStr(skill.name)),
                       DumpPair("description", DumpStr(skill.description)),
                       DumpPair("tags", DumpStrList(skill.tags)) >>) \o "}"

\* The body of JSONResponse(content=card); "capabilities" is the empty dict.
DumpCard(card) ==
    "{" \o Join(",", << DumpPair("name", DumpStr(card.name)),
                       DumpPair("description", DumpStr(card.description)),
                       DumpPair("url", DumpStr(card.url)),
                       DumpPair("version", DumpStr(card.version)),
                       DumpPair("protocolVersion", DumpStr(card.protocolVersion)),
                       DumpPair("capabilities", "{}"),
                       DumpPair("defaultInputModes", DumpStrList(card.defaultInputModes)),
                       DumpPair("defaultOutputModes", DumpStrList(card.defaultOutputModes)),
                       DumpPair("skills",
                                "[" \o Join(",", [k \in DOMAIN card.skills |->
                                                    DumpSkill(card.skills[k])]) \o "]")
                    >>) \o "}"

\* The two discovery paths get_agent_card is bound to.
CardPaths == {"/.well-known/agent.json", "/.well-known/agent-card.json"}

\* return JSONResponse(content=AGENT_CARD)
get_agent_card(card) == DumpCard(card)

(***************************************************************************)
(* The remote clients: demo_direct_a2a_client of maf_consuming_adk_agent   *)
(* and demo_maf_with_a2a_currency of shopping_assistant.  Each resolves    *)
(* the card of the remote agent and then sends its queries one by one,     *)
(* all inside one try block.  A2ACardResolver and A2AAgent are the a2a     *)
(* library's: an await of theirs returns or raises one of the library's    *)
(* exceptions.                                                             *)
(***************************************************************************)
ClientNames == {"direct", "shopping"}

\* The queries a client sends with A2AAgent.run, in order.  total_usd is
\* the total of the cart the shopping assistant computes before.
QueriesOf(c) ==
    IF c = "direct"
    THEN << "What is the exchange rate from USD to EUR?",
            "Convert 500 USD to Japanese Yen",
            "List all supported currencies" >>
    ELSE << "What is the exchange rate from USD to EUR?",
            "Convert 500 USD to Japanese Yen",
            "List all supported currencies",
            "Convert {total_usd} USD to EUR",
            "Convert {total_usd} USD to EUR",
            "Convert {total_usd} USD to GBP",
            "Convert {total_usd} USD to JPY",
            "Convert {total_usd} USD to CAD" >>

\* What await resolver.get_agent_card() may do: return the card, or raise
\* because the base URL cannot be reached or the document is no card.
CardOutcomes ==
    {[kind |-> "ok", exc |-> NoExc],
     [kind |-> "unreachable",
      exc |-> Exc("A2AClientHTTPError", "Network communication error fetching agent card")],
     [kind |-> "malformed",
      exc |-> Exc("A2AClientJSONError", "Failed to parse JSON for agent card")]}

\* What await a2a_agent.run(query) may do: return the response, or raise
\* because the response carries an error object, the network failed or the
\* call timed out.
RunOutcomes ==
    {[kind |-> "ok", exc |-> NoExc],
     [kind |-> "remote_error",
      exc |-> Exc("A2AClientJSONRPCError", "JSON-RPC Error code=-32601 message='Method not found'")],
     [kind |-> "transport_error",
      exc |-> Exc("A2AClientHTTPError", "Network communication error: All connection attempts failed")],
     [kind |-> "timeout",
      exc |-> Exc("A2AClientTimeoutError", "Client Request timed out")]}

NoReport == [label |-> "", text |-> ""]

\* The first line both clients print in their except clause.
ErrorLabel(c) == "Error connecting to ADK agent"

\* except Exception as e: print the error and leave the function.
OnException(c, e) ==
    IF Catches(e)
    THEN [next |-> "returned", report |-> [label |-> ErrorLabel(c), text |-> e.msg]]
    ELSE [next |-> "escaped", report |-> NoReport]

(***************************************************************************)
(* The requests a client may post.                                         *)
(***************************************************************************)
KnownMethods == {JStr("message/send"), JStr("tasks/send")}

\* Request ids: missing, the number 1, the string "1", null, and a string
\* UTF-8 cannot encode.
Ids == {JAbsent, JNum("1"), JStr("1"), JNull, JStr(Surrogate)}

TokyoQuery == "weather in tokyo"
LondonAlertsQuery == "alerts for london"

\* params carrying the parts where the method reads them, and where the
\* other method reads them.
ParamsFor(method, parts) ==
    IF PyEq(method, "message/send")
    THEN ObjParams(ObjMsg(parts), AbsentTask)
    ELSE ObjParams(AbsentMsg, ObjTask(ObjMsg(parts)))

ParamsForOther(method, parts) ==
    IF PyEq(method, "message/send")
    THEN ObjParams(AbsentMsg, ObjTask(ObjMsg(parts)))
    ELSE ObjParams(ObjMsg(parts), AbsentTask)

\* params with a null where the method reads its message or task.
ParamsWithNull(method) ==
    IF PyEq(method, "message/send")
    THEN ObjParams(NullMsg, AbsentTask)
    ELSE ObjParams(AbsentMsg, NullTask)

PartsShapes ==
    {NullParts,
     ListParts(<< >>),
     ListParts(<< DataPart, TextPart(TokyoQuery) >>),
     ListParts(<< TextPart(TokyoQuery), StrPart >>),
     ListParts(<< StrPart >>),
     ListParts(<< ObjPart(JStr("text"), JNum("5")) >>),
     AbsentParts,
     ListParts(<< DataPart >>),
     ListParts(<< TextPart(TokyoQuery), TextPart(LondonAlertsQuery) >>),
     ListParts(<< DataPart, TextPart(LondonAlertsQuery), TextPart(TokyoQuery) >>),
     ListParts(<< ObjPart(JAbsent, JStr(LondonAlertsQuery)), TextPart(TokyoQuery) >>),
     ListParts(<< ObjPart(JStr("text"), JAbsent), TextPart(TokyoQuery) >>)}

NonObjectBodies == {InvalidBody, ListBody}

UnknownMethodBodies ==
    {ObjBody(JStr("bogus/method"), AbsentParams, id) : id \in Ids}
        \cup {ObjBody(JAbsent, AbsentParams, JStr("1")),
              ObjBody(JStr(Surrogate), AbsentParams, JStr("1"))}

\* Well-formed requests of both methods, under every id.
IdBodies ==
    {ObjBody(m, ParamsFor(m, ListParts(<< TextPart(TokyoQuery) >>)), id) :
        m \in KnownMethods, id \in Ids}

\* Requests of both methods with id "1" and params of every shape.
ShapeBodies ==
    UNION {{ObjBody(m, p, JStr("1")) :
               p \in {NullParams, ListParams, AbsentParams,
                      ParamsWithNull(m),
                      ParamsForOther(m, ListParts(<< TextPart(TokyoQuery) >>))}
                     \cup {ParamsFor(m, parts) : parts \in PartsShapes}} :
              m \in KnownMethods}

\* Queries that name no city of the table, with and without a keyword.
MissQueries ==
    {"hello", "weather in berlin", "forecast for berlin", "any alerts today",
     "storm warning"}

\* Queries for the current weather and the alerts of a city.
CityQueries ==
    {"Weather in TOKYO", "London", "temperature in New York", "sydney",
     "alerts for tokyo"}

\* Queries for a forecast, with and without a number of days.
ForecastQueries ==
    {"forecast for tokyo", "5 day forecast for tokyo", "tokyo forecast for FIVE days",
     "7 day forecast for london", "london forecast this Week",
     "forecast for paris, 5 or 7 days"}

\* Queries with keywords of more than one skill, or with a keyword alone.
PriorityQueries ==
    {"forecast and alerts for london", "storm warning forecast",
     "weather alert for tokyo", "weather warning", "temperature", "paris"}

\* Queries that name more than one city.
MultiCityQueries ==
    {"tokyo or london", "sydney then paris forecast", "alerts for PARIS and New York"}

\* Requests of both methods with id "1" and one text part, and a query
\* that names no city under an id UTF-8 cannot encode.
QueryBodies ==
    {ObjBody(m, ParamsFor(m, ListParts(<< TextPart(q) >>)), JStr("1")) :
        m \in KnownMethods, q \in MissQueries \cup CityQueries \cup ForecastQueries
                                 \cup PriorityQueries \cup MultiCityQueries}
      \cup {ObjBody(JStr("tasks/send"),
                    ParamsFor(JStr("tasks/send"), ListParts(<< TextPart("hello") >>)),
                    JStr(Surrogate))}

Bodies ==
    NonObjectBodies \cup UnknownMethodBodies \cup IdBodies \cup ShapeBodies
        \cup QueryBodies

\* The bodies of the requests that run side by side: one for every way
\* through the handler.
CoreBodies ==
    {InvalidBody,
     ObjBody(JStr("bogus/method"), AbsentParams, JStr("1")),
     ObjBody(JStr("message/send"),
             ParamsFor(JStr("message/send"), ListParts(<< TextPart(TokyoQuery) >>)),
             JStr("1")),
     ObjBody(JStr("tasks/send"),
             ParamsFor(JStr("tasks/send"), ListParts(<< TextPart(TokyoQuery) >>)),
             JNum("1")),
     ObjBody(JStr("tasks/send"),
             ParamsFor(JStr("tasks/send"), ListParts(<< TextPart(TokyoQuery) >>)),
             JStr("1")),
     ObjBody(JStr("tasks/send"), NullParams, JStr("1")),
     ObjBody(JStr("message/send"),
             ParamsFor(JStr("message/send"),
                       ListParts(<< ObjPart(JStr("text"), JNum("5")) >>)),
             JStr("1")),
     ObjBody(JStr("tasks/send"),
             ParamsFor(JStr("tasks/send"), ListParts(<< TextPart(TokyoQuery) >>)),
             JStr(Surrogate))}

(***************************************************************************)
(* The currency agent's tools.  A float is written as the decimal          *)
(* n / 10^d it stands for, with no trailing zero in n when d > 0;          *)
(* products are exact and round() rounds halves to even.                   *)
(***************************************************************************)
Dec(n, d) == [n |-> n, d |-> d]

RECURSIVE Pow10(_)
Pow10(k) == IF k = 0 THEN 1 ELSE 10 * Pow10(k - 1)

RECURSIVE Normal(_)
Normal(x) ==
    IF x.d > 0 /\ x.n % 10 = 0 THEN Normal(Dec(x.n \div 10, x.d - 1)) ELSE x

\* x * y
Mul(x, y) == Normal(Dec(x.n * y.n, x.d + y.d))

\* round(x, places)
Round(x, places) ==
    IF x.d <= places THEN x
    ELSE LET unit == Pow10(x.d - places)
             q == x.n \div unit
             r == x.n % unit
         IN Normal(Dec(IF 2 * r > unit \/ (2 * r = unit /\ q % 2 = 1)
                       THEN q + 1 ELSE q,
                       places))

RECURSIVE ZeroPad(_, _)
ZeroPad(digits, width) ==
    IF Len(digits) >= width THEN digits ELSE ZeroPad("0" \o digits, width)

\* str(x) of a float, as an f-string writes it.
FloatStr(x) ==
    LET a == IF x.n < 0 THEN 0 - x.n ELSE x.n
    IN (IF x.n < 0 THEN "-" ELSE "")
          \o NatStr(a \div Pow10(x.d)) \o "."
          \o (IF x.d = 0 THEN "0" ELSE ZeroPad(NatStr(a % Pow10(x.d)), x.d))

\* Python's None as a value of a result.
PyNone == [none |-> TRUE]

EXCHANGE_RATES ==
    << "USD", "EUR" >> :> Dec(92, 2) @@ << "USD", "GBP" >> :> Dec(79, 2) @@
    << "USD", "JPY" >> :> Dec(1495, 1) @@ << "USD", "CAD" >> :> Dec(136, 2) @@
    << "USD", "AUD" >> :> Dec(153, 2) @@ << "USD", "INR" >> :> Dec(8312, 2) @@
    << "USD", "CHF" >> :> Dec(88, 2) @@ << "USD", "CNY" >> :> Dec(724, 2) @@
    << "USD", "MXN" >> :> Dec(1715, 2) @@ << "USD", "BRL" >> :> Dec(497, 2) @@
    << "EUR", "USD" >> :> Dec(109, 2) @@ << "EUR", "GBP" >> :> Dec(86, 2) @@
    << "EUR", "JPY" >> :> Dec(16285, 2) @@ << "GBP", "USD" >> :> Dec(127, 2) @@
    << "GBP", "EUR" >> :> Dec(116, 2) @@ << "JPY", "USD" >> :> Dec(67, 4) @@
    << "INR", "USD" >> :> Dec(12, 3)

\* rate_key in EXCHANGE_RATES
HasRate(from_currency, to_currency) ==
    << from_currency, to_currency >> \in DOMAIN EXCHANGE_RATES

\* The last return of convert_currency and of get_exchange_rate.
NotAvailable(original_amount, from_currency, to_currency) ==
    [success |-> FALSE,
     original_amount |-> original_amount,
     from_currency |-> from_currency,
     to_currency |-> to_currency,
     converted_amount |-> PyNone,
     exchange_rate |-> PyNone,
     message |-> "Exchange rate not available for " \o from_currency
                    \o " to " \o to_currency]

Converted(amount, from_currency, to_currency, converted, rate, suffix) ==
    [success |-> TRUE,
     original_amount |-> amount,
     from_currency |-> from_currency,
     to_currency |-> to_currency,
     converted_amount |-> converted,
     exchange_rate |-> rate,
     message |-> FloatStr(amount) \o " " \o from_currency \o " = "
                    \o FloatStr(converted) \o " " \o to_currency \o suffix]

\* The steps of convert_currency after the codes are in upper case.
ConvertUpper(amount, from_currency, to_currency) ==
    IF from_currency = to_currency
    THEN Converted(amount, from_currency, to_currency, amount, Dec(1, 0), "")
    ELSE IF HasRate(from_currency, to_currency)
    THEN Bind(EXCHANGE_RATES[<< from_currency, to_currency >>], LAMBDA rate :
            Converted(amount, from_currency, to_currency,
                      Round(Mul(amount, rate), 2), rate, ""))
    ELSE IF /\ from_currency # "USD" /\ to_currency # "USD"
            /\ HasRate(from_currency, "USD") /\ HasRate("USD", to_currency)
    THEN Bind(Mul(EXCHANGE_RATES[<< from_currency, "USD" >>],
                  EXCHANGE_RATES[<< "USD", to_currency >>]), LAMBDA combined_rate :
            Converted(amount, from_currency, to_currency,
                      Round(Mul(amount, combined_rate), 2),
                      Round(combined_rate, 4), " (via USD)"))
    ELSE NotAvailable(amount, from_currency, to_currency)

\* convert_currency trying the route via USD before the direct rate.
convert_currency_via_usd_first(amount, from_currency, to_currency) ==
    Bind(<< Upper(from_currency), Upper(to_currency) >>, LAMBDA c :
        IF c[1] # c[2] /\ c[1] # "USD" /\ c[2] # "USD"
              /\ HasRate(c[1], "USD") /\ HasRate("USD", c[2])
        THEN Bind(Mul(EXCHANGE_RATES[<< c[1], "USD" >>],
                      EXCHANGE_RATES[<< "USD", c[2] >>]), LAMBDA combined_rate :
                Converted(amount, c[1], c[2], Round(Mul(amount, combined_rate), 2),
                          Round(combined_rate, 4), " (via USD)"))
        ELSE ConvertUpper(amount, c[1], c[2]))

convert_currency(amount, from_currency, to_currency) ==
    ConvertUpper(amount, Upper(from_currency), Upper(to_currency))

Quoted(from_currency, to_currency, rate, shown) ==
    [success |-> TRUE,
     from_currency |-> from_currency,
     to_currency |-> to_currency,
     exchange_rate |-> rate,
     message |-> "1 " \o from_currency \o " = " \o shown \o " " \o to_currency]

NotQuoted(from_currency, to_currency) ==
    [success |-> FALSE,
     from_currency |-> from_currency,
     to_currency |-> to_currency,
     exchange_rate |-> PyNone,
     message |-> "Exchange rate not available for " \o from_currency
                    \o " to " \o to_currency]

\* The steps of get_exchange_rate after the codes are in upper case.
QuoteUpper(from_currency, to_currency) ==
    IF from_currency = to_currency
    THEN Quoted(from_currency, to_currency, Dec(1, 0), "1")
    ELSE IF HasRate(from_currency, to_currency)
    THEN Bind(EXCHANGE_RATES[<< from_currency, to_currency >>], LAMBDA rate :
            Quoted(from_currency, to_currency, rate, FloatStr(rate)))
    ELSE NotQuoted(from_currency, to_currency)

\* get_exchange_rate with the route via USD of convert_currency.
get_exchange_rate_via_usd(from_currency, to_currency) ==
    Bind(<< Upper(from_currency), Upper(to_currency) >>, LAMBDA c :
        IF c[1] # c[2] /\ ~HasRate(c[1], c[2]) /\ c[1] # "USD" /\ c[2] # "USD"
              /\ HasRate(c[1], "USD") /\ HasRate("USD", c[2])
        THEN Bind(Round(Mul(EXCHANGE_RATES[<< c[1], "USD" >>],
                            EXCHANGE_RATES[<< "USD", c[2] >>]), 4), LAMBDA rate :
                Quoted(c[1], c[2], rate, FloatStr(rate)))
        ELSE QuoteUpper(c[1], c[2]))

get_exchange_rate(from_currency, to_currency) ==
    QuoteUpper(Upper(from_currency), Upper(to_currency))

\* The arguments the tools are called with: codes in either case, one
\* that no rate names, and amounts that are zero, negative and fractions.
CurrencyCodes ==
    {"USD", "usd", "EUR", "Eur", "GBP", "JPY", "jpy", "INR", "CAD", "XYZ"}

Amounts == {Dec(0, 0), Dec(1, 0), Dec(100, 0), Dec(25, 1), Dec(-40, 0), Dec(1999, 2)}

\* No tool has been called yet.
NoTool == [fn |-> "", args |-> << >>]

(***************************************************************************)
(* The shopping assistant's interactive mode.                              *)
(***************************************************************************)
\* The keys of PRODUCTS, in the order of the dict.
PRODUCTS ==
    << "laptop", "headphones", "keyboard", "mouse", "monitor", "backpack",
       "water bottle", "notebook", "pen set", "desk lamp" >>

QuitWords == {"quit", "exit", "q"}

Categories == << "electronics", "accessories", "office" >>

CurrencyWords ==
    << "convert", "exchange", "currency", "rate", "usd", "eur", "gbp", "jpy" >>

\* The first item of a list that the text contains, "" if there is none:
\* for x in items: if x in text: ...; break
FirstIn(items, text) ==
    Bind({k \in DOMAIN items : Contains(text, items[k])}, LAMBDA hits :
        IF hits = {} THEN ""
        ELSE items[CHOOSE k \in hits : \A j \in hits : k <= j])

\* text.find(needle) + 1, for a needle the text contains.
IndexOf(text, needle) ==
    CHOOSE p \in 1..Len(text) :
        /\ SubSeq(text, p, p + Len(needle) - 1) = needle
        /\ \A q \in 1..(p - 1) : SubSeq(text, q, q + Len(needle) - 1) # needle

IsDigit(c) == Len(c) = 1 /\ Contains(Digits, c)

RECURSIVE SkipSpaces(_, _)
\* \s*
SkipSpaces(text, i) ==
    IF i <= Len(text) /\ IsSpace(CharAt(text, i)) THEN SkipSpaces(text, i + 1) ELSE i

\* x?
SkipX(text, i) == IF i <= Len(text) /\ CharAt(text, i) = "x" THEN i + 1 ELSE i

RECURSIVE DigitsFrom(_, _)
\* (\d+)?
DigitsFrom(text, i) ==
    IF i <= Len(text) /\ IsDigit(CharAt(text, i))
    THEN CharAt(text, i) \o DigitsFrom(text, i + 1)
    ELSE ""

RECURSIVE NatOf(_)
\* int(digits)
NatOf(digits) ==
    IF digits = "" THEN 0
    ELSE 10 * NatOf(SubSeq(digits, 1, Len(digits) - 1))
            + (CHOOSE d \in 0..9 : CharAt(Digits, d + 1) = CharAt(digits, Len(digits)))

\* re.search(rf'{product}\s*x?\s*(\d+)?', input_lower), then
\* int(match.group(1)) if match and match.group(1) else 1
Quantity(input_lower, product) ==
    Bind(DigitsFrom(input_lower,
                    SkipSpaces(input_lower,
                        SkipX(input_lower,
                            SkipSpaces(input_lower,
                                IndexOf(input_lower, product) + Len(product))))),
         LAMBDA digits : IF digits = "" THEN 1 ELSE NatOf(digits))

RECURSIVE CartItemsFrom(_, _)
CartItemsFrom(input_lower, k) ==
    IF k > Len(PRODUCTS) THEN << >>
    ELSE (IF Contains(input_lower, PRODUCTS[k])
          THEN << [product |-> PRODUCTS[k],
                   quantity |-> Quantity(input_lower, PRODUCTS[k])] >>
          ELSE << >>)
            \o CartItemsFrom(input_lower, k + 1)

\* The items of the cart branch.
CartItems(input_lower) == CartItemsFrom(input_lower, 1)

\* A call of one of the local functions; NoTool when none is called.
LocalCall(fn, args) == [fn |-> fn, args |-> args]

\* The branch of an input and the call it makes.
Routed(branch, local, remote) == [branch |-> branch, local |-> local, remote |-> remote]

\* RouteInput looking for the currency words first.
RouteInputCurrencyFirst(input_lower) ==
    IF \E k \in DOMAIN CurrencyWords : Contains(input_lower, CurrencyWords[k])
    THEN Routed("currency", NoTool, TRUE)
    ELSE IF Contains(input_lower, "list products") \/ Contains(input_lower, "show products")
    THEN Routed("list", LocalCall("list_products", << FirstIn(Categories, input_lower) >>),
                FALSE)
    ELSE IF Contains(input_lower, "price")
    THEN Bind(FirstIn(PRODUCTS, input_lower), LAMBDA product :
            Routed("price",
                   IF product = "" THEN NoTool
                   ELSE LocalCall("get_product_price", << product >>),
                   FALSE))
    ELSE IF Contains(input_lower, "cart")
    THEN Bind(CartItems(input_lower), LAMBDA items :
            Routed("cart",
                   IF items = << >> THEN NoTool
                   ELSE LocalCall("calculate_cart_total", << items >>),
                   FALSE))
    ELSE Routed("help", NoTool, FALSE)

\* The if/elif chain of the loop on input_lower.  A category or product
\* of "" stands for None and for a for loop that found nothing.
RouteInput(input_lower) ==
    IF Contains(input_lower, "list products") \/ Contains(input_lower, "show products")
    THEN Routed("list", LocalCall("list_products", << FirstIn(Categories, input_lower) >>),
                FALSE)
    ELSE IF Contains(input_lower, "price")
    THEN Bind(FirstIn(PRODUCTS, input_lower), LAMBDA product :
            Routed("price",
                   IF product = "" THEN NoTool
                   ELSE LocalCall("get_product_price", << product >>),
                   FALSE))
    ELSE IF Contains(input_lower, "cart")
    THEN Bind(CartItems(input_lower), LAMBDA items :
            Routed("cart",
                   IF items = << >> THEN NoTool
                   ELSE LocalCall("calculate_cart_total", << items >>),
                   FALSE))
    ELSE IF \E k \in DOMAIN CurrencyWords : Contains(input_lower, CurrencyWords[k])
    THEN Routed("currency", NoTool, TRUE)
    ELSE Routed("help", NoTool, FALSE)

\* One pass of the loop body up to its first await: the words that end
\* the loop, the empty input, and the chain.
LoopBody(line) ==
    Bind(Strip(line), LAMBDA stripped :
        IF Lower(stripped) \in QuitWords THEN Routed("quit", NoTool, FALSE)
        ELSE IF stripped = "" THEN Routed("empty", NoTool, FALSE)
        ELSE RouteInput(Lower(stripped)))

\* What input() may raise: Ctrl-C at the prompt and the end of stdin.
InputExceptions ==
    {Exc("KeyboardInterrupt", ""), Exc("EOFError", "EOF when reading a line")}

\* What await currency_agent.run(user_input) may do in the loop: what it
\* does in the demos, or be interrupted from the keyboard.
InteractiveRunOutcomes ==
    RunOutcomes \cup {[kind |-> "interrupt", exc |-> Exc("KeyboardInterrupt", "")]}

\* The two except clauses of the loop.
LoopOnException(e) ==
    IF e.type = "KeyboardInterrupt"
    THEN [next |-> "interrupted", report |-> [label |-> "", text |-> "\nGoodbye!"]]
    ELSE IF Catches(e)
    THEN [next |-> "prompt", report |-> [label |-> "Error", text |-> e.msg]]
    ELSE [next |-> "escaped", report |-> NoReport]

\* The lines a user types.
InputLines ==
    {"quit", "EXIT", "  q  ", "Quit ", "", "   ",
     "list products", "show products electronics", "SHOW PRODUCTS office",
     "list products and convert usd", "show products price accessories",
     "price of laptop", "price", "Price of Water Bottle", "price in eur",
     "cart price of mouse", "price of notebook and keyboard",
     "cart: laptop x1", "cart: laptop x1, headphones x2", "cart", "cart in usd: pen set 3",
     "cart: monitor", "cart mouse x 12 desk lamp x0",
     "convert 100 USD to EUR", "exchange rate USD to GBP", "currency", "what is the rate",
     "100 usd", "EUR?", "gbp to jpy", "separate the laptop",
     "hello", "laptop", "products", "quitter", "exit now", "q?"}

(***************************************************************************)
(* The server: one slot per request of the process lifetime.               *)
(***************************************************************************)
VARIABLES
    pc,       \* slot -> "idle", "received", "routed", "handled", "responded", "escaped"
    body,     \* slot -> the request body
    frame,    \* slot -> the handler's locals
    resp,     \* slot -> the response returned, NoResp before
    nresp,    \* slot -> how many responses the handler returned
    raised,   \* slot -> the exception raised in the try block, NoExc if none
    calls,    \* slot -> how many times process_weather_query was awaited
    agent_card,   \* the module's AGENT_CARD dict
    served,       \* discovery path -> the last document served on it, "" before
    cpc,      \* client -> "start", "resolving", "running", "returned", "escaped"
    sent,     \* client -> how many queries it has sent to the remote agent
    cfail,    \* client -> the failure that ended it, "" if none
    report,   \* client -> the error it printed, NoReport if none
    called,   \* the last call of a tool of the currency agent, NoTool before
    returned, \* what that call returned
    ipc,          \* the loop: "prompt", "awaiting", "quit", "interrupted", "escaped"
    user_input,   \* the last line read, stripped
    branch,       \* the branch the last line took, "" before
    local,        \* the local function the last line called, NoTool if none
    runs,         \* how often currency_agent.run was called for the last line
    iraised,      \* the exception raised in the last pass of the loop
    ireport       \* what the except clauses printed in the last pass

serverVars == << pc, body, frame, resp, nresp, raised, calls, agent_card, served >>

clientVars == << cpc, sent, cfail, report >>

toolVars == << called, returned >>

shopVars == << ipc, user_input, branch, local, runs, iraised, ireport >>

vars == << serverVars, clientVars, toolVars, shopVars >>

Init ==
    /\ pc = [i \in Slots |-> "idle"]
    /\ body = [i \in Slots |-> InvalidBody]
    /\ frame = [i \in Slots |-> NoFrame]
    /\ resp = [i \in Slots |-> NoResp]
    /\ nresp = [i \in Slots |-> 0]
    /\ raised = [i \in Slots |-> NoExc]
    /\ calls = [i \in Slots |-> 0]
    /\ agent_card = AGENT_CARD
    /\ served = [p \in CardPaths |-> ""]
    /\ cpc = [c \in ClientNames |-> "start"]
    /\ sent = [c \in ClientNames |-> 0]
    /\ cfail = [c \in ClientNames |-> ""]
    /\ report = [c \in ClientNames |-> NoReport]
    /\ called = NoTool
    /\ returned = PyNone
    /\ ipc = "prompt"
    /\ user_input = ""
    /\ branch = ""
    /\ local = NoTool
    /\ runs = 0
    /\ iraised = NoExc
    /\ ireport = NoReport

\* The handler of slot i moves on as the outcome o says.
Advance(i, o) ==
    /\ pc' = [pc EXCEPT ![i] = o.next]
    /\ frame' = [frame EXCEPT ![i] = o.frame]
    /\ raised' = [raised EXCEPT ![i] = o.raised]
    /\ IF o.next = "responded"
       THEN /\ resp' = [resp EXCEPT ![i] = o.resp]
            /\ nresp' = [nresp EXCEPT ![i] = @ + 1]
       ELSE UNCHANGED << resp, nresp >>

\* A client posts body b: the server starts a handler for it.
Receive(i, b) ==
    /\ pc[i] = "idle"
    /\ \A j \in Slots : j < i => pc[j] # "idle"
    /\ pc' = [pc EXCEPT ![i] = "received"]
    /\ body' = [body EXCEPT ![i] = b]
    /\ UNCHANGED << frame, resp, nresp, raised, calls, agent_card, served, clientVars, toolVars, shopVars >>

Route(i) ==
    /\ pc[i] = "received"
    /\ \E b \in {body[i]} : \E o \in {RouteStep(b)} : Advance(i, o)
    /\ UNCHANGED << body, calls, agent_card, served, clientVars, toolVars, shopVars >>

\* Handle waiting for every request received earlier to leave the router.
HandleAfterEarlier(i) ==
    /\ pc[i] = "routed"
    /\ \A j \in Slots : j < i => pc[j] \notin {"received", "routed"}
    /\ \E f \in {frame[i]} : \E o \in HandleStep(f) : Advance(i, o)
    /\ calls' = [calls EXCEPT ![i] = @ + 1]
    /\ UNCHANGED << body, agent_card, served, clientVars, toolVars, shopVars >>

Handle(i) ==
    /\ pc[i] = "routed"
    /\ \E f \in {frame[i]} : \E o \in HandleStep(f) : Advance(i, o)
    /\ calls' = [calls EXCEPT ![i] = @ + 1]
    /\ UNCHANGED << body, agent_card, served, clientVars, toolVars, shopVars >>

Respond(i) ==
    /\ pc[i] = "handled"
    /\ \E f \in {frame[i]} : \E o \in {RespondStep(f)} : Advance(i, o)
    /\ UNCHANGED << body, calls, agent_card, served, clientVars, toolVars, shopVars >>

\* GetAgentCard bumping the version of the card it has served.
GetAgentCardBumpingVersion(path) ==
    /\ served' = [served EXCEPT ![path] = get_agent_card(agent_card)]
    /\ agent_card' = [agent_card EXCEPT !.version = @ \o ".1"]
    /\ UNCHANGED << pc, body, frame, resp, nresp, raised, calls, clientVars, toolVars, shopVars >>

\* A client fetches the card on one of the discovery paths.
GetAgentCard(path) ==
    /\ served' = [served EXCEPT ![path] = get_agent_card(agent_card)]
    /\ UNCHANGED << pc, body, frame, resp, nresp, raised, calls, agent_card, clientVars, toolVars, shopVars >>

\* The server with up to MaxReq requests, their handlers interleaving at the
\* awaits.
Next ==
    \E i \in Slots :
        \/ \E b \in CoreBodies : Receive(i, b)
        \/ Route(i)
        \/ Handle(i)
        \/ Respond(i)

Spec == Init /\ [][Next]_vars

\* The next stretch of the handler of slot i.
Step(i) == Route(i) \/ Handle(i) \/ Respond(i)

\* The event loop runs every handler that is ready to run.
Fairness == \A i \in Slots : WF_vars(Step(i))

FairSpec == Spec /\ Fairness

\* The server with card fetches between the steps of its handlers.
CardNext ==
    \/ \E i \in Slots :
          \/ \E b \in CoreBodies : Receive(i, b)
          \/ Route(i)
          \/ Handle(i)
          \/ Respond(i)
    \/ \E path \in CardPaths : GetAgentCard(path)

CardSpec == Init /\ [][CardNext]_vars

\* async with httpx.AsyncClient(timeout=60.0): the resolver is built.
ClientStart(c) ==
    /\ cpc[c] = "start"
    /\ cpc' = [cpc EXCEPT ![c] = "resolving"]
    /\ UNCHANGED << sent, cfail, report, serverVars, toolVars, shopVars >>

\* ResolveCard going on to the queries whatever the resolver did.
ResolveCardIgnoringFailure(c, outcome) ==
    /\ cpc[c] = "resolving"
    /\ cpc' = [cpc EXCEPT ![c] = "running"]
    /\ cfail' = [cfail EXCEPT ![c] = IF outcome.exc = NoExc THEN "" ELSE outcome.kind]
    /\ UNCHANGED << sent, report, serverVars, toolVars, shopVars >>

\* agent_card = await resolver.get_agent_card(), then A2AAgent(...).
ResolveCard(c, outcome) ==
    /\ cpc[c] = "resolving"
    /\ IF outcome.exc = NoExc
       THEN /\ cpc' = [cpc EXCEPT ![c] = "running"]
            /\ UNCHANGED << cfail, report >>
       ELSE \E o \in {OnException(c, outcome.exc)} :
                /\ cpc' = [cpc EXCEPT ![c] = o.next]
                /\ cfail' = [cfail EXCEPT ![c] = outcome.kind]
                /\ report' = [report EXCEPT ![c] = o.report]
    /\ UNCHANGED << sent, serverVars, toolVars, shopVars >>

\* response = await a2a_agent.run(query), for the next query of the client.
RunQuery(c, outcome) ==
    /\ cpc[c] = "running"
    /\ sent[c] < Len(QueriesOf(c))
    /\ sent' = [sent EXCEPT ![c] = @ + 1]
    /\ IF outcome.exc = NoExc
       THEN /\ cpc' = [cpc EXCEPT ![c] = IF sent[c] + 1 = Len(QueriesOf(c))
                                        THEN "returned" ELSE "running"]
            /\ UNCHANGED << cfail, report >>
       ELSE \E o \in {OnException(c, outcome.exc)} :
                /\ cpc' = [cpc EXCEPT ![c] = o.next]
                /\ cfail' = [cfail EXCEPT ![c] = outcome.kind]
                /\ report' = [report EXCEPT ![c] = o.report]
    /\ UNCHANGED << serverVars, toolVars, shopVars >>

\* The next step of client c.
ClientStep(c) ==
    \/ ClientStart(c)
    \/ \E outcome \in CardOutcomes : ResolveCard(c, outcome)
    \/ \E outcome \in RunOutcomes : RunQuery(c, outcome)

ClientNext == \E c \in ClientNames : ClientStep(c)

ClientSpec == Init /\ [][ClientNext]_vars

\* Every await of a client comes back: the HTTP client has a timeout.
ClientFairSpec == ClientSpec /\ \A c \in ClientNames : WF_vars(ClientStep(c))

\* The handler on one request, for every body a client may post.
\* The agent calls convert_currency.
ConvertCurrency(amount, from_currency, to_currency) ==
    /\ called' = [fn |-> "convert_currency",
                  args |-> << amount, from_currency, to_currency >>]
    /\ returned' = convert_currency(amount, from_currency, to_currency)
    /\ UNCHANGED << serverVars, clientVars, shopVars >>

\* The agent calls get_exchange_rate.
GetExchangeRate(from_currency, to_currency) ==
    /\ called' = [fn |-> "get_exchange_rate",
                  args |-> << from_currency, to_currency >>]
    /\ returned' = get_exchange_rate(from_currency, to_currency)
    /\ UNCHANGED << serverVars, clientVars, shopVars >>

CurrencyNext ==
    \/ \E amount \in Amounts, f, t \in CurrencyCodes : ConvertCurrency(amount, f, t)
    \/ \E f, t \in CurrencyCodes : GetExchangeRate(f, t)

CurrencySpec == Init /\ [][CurrencyNext]_vars

\* user_input = input(...).strip() returns, and the loop body runs up to
\* the end of the pass or to the await of the currency branch.
ReadInput(line) ==
    /\ ipc = "prompt"
    /\ \E r \in {LoopBody(line)} :
          /\ user_input' = Strip(line)
          /\ branch' = r.branch
          /\ local' = r.local
          /\ runs' = IF r.remote THEN 1 ELSE 0
          /\ ipc' = IF r.branch = "quit" THEN "quit"
                    ELSE IF r.remote THEN "awaiting" ELSE "prompt"
    /\ iraised' = NoExc
    /\ ireport' = IF LoopBody(line).branch = "quit"
                  THEN [label |-> "", text |-> "Goodbye!"] ELSE NoReport
    /\ UNCHANGED << serverVars, clientVars, toolVars >>

\* input() raises.
InputRaises(e) ==
    /\ ipc = "prompt"
    /\ \E o \in {LoopOnException(e)} :
          /\ ipc' = o.next
          /\ ireport' = o.report
    /\ iraised' = e
    /\ branch' = ""
    /\ local' = NoTool
    /\ runs' = 0
    /\ UNCHANGED << user_input, serverVars, clientVars, toolVars >>

\* RunReturns leaving the loop on an exception, as the demos do.
RunReturnsLeavingOnError(outcome) ==
    /\ ipc = "awaiting"
    /\ iraised' = outcome.exc
    /\ IF outcome.exc = NoExc
       THEN ipc' = "prompt" /\ ireport' = NoReport
       ELSE \E o \in {LoopOnException(outcome.exc)} :
                /\ ipc' = IF o.next = "prompt" THEN "escaped" ELSE o.next
                /\ ireport' = o.report
    /\ UNCHANGED << user_input, branch, local, runs, serverVars, clientVars, toolVars >>

\* response = await currency_agent.run(user_input) returns or raises.
RunReturns(outcome) ==
    /\ ipc = "awaiting"
    /\ iraised' = outcome.exc
    /\ IF outcome.exc = NoExc
       THEN ipc' = "prompt" /\ ireport' = NoReport
       ELSE \E o \in {LoopOnException(outcome.exc)} :
                /\ ipc' = o.next
                /\ ireport' = o.report
    /\ UNCHANGED << user_input, branch, local, runs, serverVars, clientVars, toolVars >>

\* The await of the loop body.
Await == \E outcome \in InteractiveRunOutcomes : RunReturns(outcome)

InteractiveNext ==
    \/ \E line \in InputLines : ReadInput(line)
    \/ \E e \in InputExceptions : InputRaises(e)
    \/ Await

InteractiveSpec == Init /\ [][InteractiveNext]_vars

\* An await of the remote agent ends: the client library times out.
InteractiveFairSpec == InteractiveSpec /\ WF_vars(Await)

HandlerNext ==
    \/ \E b \in Bodies : Receive(1, b)
    \/ Route(1)
    \/ Handle(1)
    \/ Respond(1)

HandlerSpec == Init /\ [][HandlerNext]_vars

(***************************************************************************)
(* Properties of handle_a2a_request.                                       *)
(***************************************************************************)
Responded(i) == pc[i] = "responded"

\* The id the client sent, when it sent one.
HasId(b) == b.kind = "obj" /\ b.id.t # "absent"

MethodOf(b) == Get(b.method, JStr(""))

IsKnownMethod(m) == PyEq(m, "message/send") \/ PyEq(m, "tasks/send")

\* C1: no two tasks/send responses carry the same task id.
C1_TaskIdsUnique ==
    \A i, j \in Slots :
        (i # j /\ Responded(i) /\ Responded(j)
              /\ IsTaskResult(resp[i]) /\ IsTaskResult(resp[j]))
            => resp[i].result.id # resp[j].result.id

\* C2: every request received is answered, exactly once, and no exception
\* leaves the handler.
C2_ExactlyOneResponse ==
    /\ [](\A i \in Slots :
              /\ pc[i] # "escaped"
              /\ nresp[i] = (IF Responded(i) THEN 1 ELSE 0)
              /\ Responded(i) => (IsSuccess(resp[i]) \/ IsError(resp[i])))
    /\ \A i \in Slots : (pc[i] = "received") ~> Responded(i)

\* A malformed body and a failing request were both answered, once each.
C2_Witness ==
    \E i, j \in Slots :
        /\ body[i] = InvalidBody /\ Responded(i) /\ nresp[i] = 1
        /\ raised[j].type = "AttributeError" /\ Responded(j) /\ nresp[j] = 1

\* C3: the response carries the id of the request, on every path.
C3_IdEchoedOnEveryPath ==
    \A i \in Slots :
        (Responded(i) /\ HasId(body[i])) => resp[i].id = body[i].id

\* A message/send envelope as the data model describes it: an id that is a
\* string, a number or null, and parts that are objects, the text of a text
\* part a string.
ValidPart(part) ==
    part.t = "obj" /\ (PyEq(part.kind, "text") => part.text.t = "str")

ValidMessageSend(b) ==
    /\ b.kind = "obj"
    /\ PyEq(b.method, "message/send")
    /\ b.id.t \in {"str", "num", "null"}
    /\ b.params.t = "obj"
    /\ b.params.message.t = "obj"
    /\ b.params.message.parts.t = "list"
    /\ \A k \in DOMAIN b.params.message.parts.items :
           ValidPart(b.params.message.parts.items[k])

\* C4: a valid message/send envelope gets a success envelope with its id.
C4_ValidMessageSendEchoesId ==
    \A i \in Slots :
        (Responded(i) /\ ValidMessageSend(body[i]))
            => (IsSuccess(resp[i]) /\ resp[i].id = body[i].id)

\* C5: a request with any other method, or none, gets the error -32601
\* "Method not found: <method>" with its id.
C5_UnknownMethodNotFound ==
    \A i \in Slots :
        (Responded(i) /\ body[i].kind = "obj" /\ ~IsKnownMethod(MethodOf(body[i])))
            => /\ IsError(resp[i])
               /\ resp[i].error.code = -32601
               /\ resp[i].error.message = "Method not found: " \o Format(MethodOf(body[i]))
               /\ HasId(body[i]) => resp[i].id = body[i].id

\* C6: a body that does not decode gets the error -32700 or -32602 and is
\* never routed.
C6_DecodeFailureCode ==
    \A i \in Slots :
        (Responded(i) /\ body[i].kind # "obj")
            => /\ IsError(resp[i])
               /\ resp[i].error.code \in {-32700, -32602}
               /\ calls[i] = 0
               /\ frame[i] = NoFrame

\* params of a shape the method does not read: no object, a message or task
\* that is no object, or the key of the other method in place of its own.
ParamsMismatch(b) ==
    /\ b.kind = "obj"
    /\ IsKnownMethod(b.method)
    /\ \/ b.params.t \notin {"absent", "obj"}
       \/ /\ b.params.t = "obj"
          /\ IF PyEq(b.method, "message/send")
             THEN \/ b.params.message.t \notin {"absent", "obj"}
                  \/ b.params.message.t = "absent" /\ b.params.task.t # "absent"
             ELSE \/ b.params.task.t \notin {"absent", "obj"}
                  \/ b.params.task.t = "absent" /\ b.params.message.t # "absent"

\* C7: params that do not match the method get the invalid-params error,
\* not a result.
C7_MismatchIsInvalidParams ==
    \A i \in Slots :
        (Responded(i) /\ ParamsMismatch(body[i]))
            => (IsError(resp[i]) /\ ~IsSuccess(resp[i])
                   /\ resp[i].error.code = -32602)

\* C8: an exception raised while handling is answered with the error
\* -32000 and the text of the exception.
C8_InternalErrorEnvelope ==
    \A i \in Slots :
        raised[i] # NoExc
            => /\ Responded(i)
               /\ IsError(resp[i]) /\ ~IsSuccess(resp[i])
               /\ resp[i].error.code = -32000
               /\ resp[i].error.message = raised[i].msg

\* A request was answered after its params raised.
C8_Witness ==
    \E i \in Slots :
        /\ Responded(i)
        /\ raised[i] = NoGet("null")
        /\ IsKnownMethod(MethodOf(body[i]))

\* C9: a task in a tasks/send result is completed or failed.
C9_TaskStateTerminal ==
    \A i \in Slots :
        (Responded(i) /\ PyEq(MethodOf(body[i]), "tasks/send") /\ IsSuccess(resp[i]))
            => /\ IsTaskResult(resp[i])
               /\ resp[i].result.status.state \in {"completed", "failed"}

\* A tasks/send request was answered with a result.
C9_Witness ==
    \E i \in Slots :
        Responded(i) /\ PyEq(MethodOf(body[i]), "tasks/send") /\ IsTaskResult(resp[i])

\* C10: a response has jsonrpc "2.0", an id and exactly one of result and
\* error.
C10_ResultXorError ==
    \A i \in Slots :
        Responded(i)
            => /\ DOMAIN resp[i] \in {{"jsonrpc", "id", "result"}, {"jsonrpc", "id", "error"}}
               /\ resp[i].jsonrpc = "2.0"

\* One request was answered with a result and another with an error.
C10_Witness ==
    \E i, j \in Slots :
        /\ Responded(i) /\ Responded(j)
        /\ IsSuccess(resp[i]) /\ IsError(resp[j])

(***************************************************************************)
(* The dispatcher states of a request.                                     *)
(***************************************************************************)
\* The moves of a request: forward through Received, Routed, Handled,
\* Responded, an error answered from where it was raised.
DispatcherMoves ==
    {<< "idle", "received" >>,
     << "received", "routed" >>, << "received", "responded" >>,
     << "routed", "handled" >>, << "routed", "responded" >>,
     << "handled", "responded" >>}

\* Everything the server holds about request i.
SlotState(i) == << pc[i], body[i], frame[i], resp[i], nresp[i], raised[i], calls[i] >>

\* C11: a request moves forward through Received, Routed, Handled,
\* Responded; process_weather_query is awaited at most once, from Routed
\* and only for message/send or tasks/send; a request with another method
\* is answered without it; nothing changes for a request once answered.
C11_DispatcherOrder ==
    [][\A i \in Slots :
          /\ pc'[i] # pc[i] => << pc[i], pc'[i] >> \in DispatcherMoves
          /\ calls'[i] # calls[i]
                => /\ pc[i] = "routed"
                   /\ calls[i] = 0 /\ calls'[i] = 1
                   /\ IsKnownMethod(MethodOf(body[i]))
          /\ (pc'[i] = "responded" /\ ~IsKnownMethod(MethodOf(body'[i])))
                => calls'[i] = 0
          /\ pc[i] = "responded" => SlotState(i)' = SlotState(i)]_vars

\* A request of a known method was answered after one call of the router,
\* and a request of an unknown method without any.
C11_Witness ==
    \E i, j \in Slots :
        /\ Responded(i) /\ calls[i] = 1 /\ IsKnownMethod(MethodOf(body[i]))
        /\ Responded(j) /\ calls[j] = 0
        /\ body[j].kind = "obj" /\ ~IsKnownMethod(MethodOf(body[j]))

(***************************************************************************)
(* The text handed to the router.                                          *)
(***************************************************************************)
\* The message a request carries where its method reads it.
MessageRead(b) ==
    IF PyEq(b.method, "message/send") THEN b.params.message ELSE b.params.task.message

\* A request of a known method whose message is an object with parts that
\* are missing or a list of objects.
HasPartsOfObjects(b) ==
    /\ b.kind = "obj"
    /\ IsKnownMethod(b.method)
    /\ b.params.t = "obj"
    /\ PyEq(b.method, "tasks/send") => b.params.task.t = "obj"
    /\ MessageRead(b).t = "obj"
    /\ MessageRead(b).parts.t \in {"absent", "list"}
    /\ \A k \in DOMAIN MessageRead(b).parts.items :
           MessageRead(b).parts.items[k].t = "obj"

\* The positions of the parts of kind "text".
TextPartsAt(b) ==
    {k \in DOMAIN MessageRead(b).parts.items :
        PyEq(MessageRead(b).parts.items[k].kind, "text")}

\* The text of the first part of kind "text", "" when there is none or it
\* has no text.
FirstTextPartText(b) ==
    IF TextPartsAt(b) = {} THEN JStr("")
    ELSE Get(MessageRead(b).parts.items[
                 CHOOSE k \in TextPartsAt(b) : \A j \in TextPartsAt(b) : k <= j].text,
             JStr(""))

\* The id of the request can be written in UTF-8.
IdEncodable(b) == ~Contains(Get(b.id, JStr("1")).v, Surrogate)

AnswerParts(i) ==
    IF IsTaskResult(resp[i]) THEN resp[i].result.artifacts[1].parts
    ELSE resp[i].result.message.parts

AnswerText(i) == AnswerParts(i)[1].text

\* C13: a tasks/send result is a completed task with one artifact of one
\* text part, whose text is what the router answered to the extracted text.
C13_TaskResultShape ==
    \A i \in Slots :
        (Responded(i) /\ PyEq(MethodOf(body[i]), "tasks/send") /\ IsSuccess(resp[i]))
            => /\ IsTaskResult(resp[i])
               /\ resp[i].result.status.state = "completed"
               /\ Len(resp[i].result.artifacts) = 1
               /\ Len(resp[i].result.artifacts[1].parts) = 1
               /\ DOMAIN resp[i].result.artifacts[1] = {"parts"}
               /\ resp[i].result.artifacts[1].parts[1].kind = "text"
               /\ calls[i] = 1
               /\ frame[i].user_text.t = "str"
               /\ AnswerText(i) = frame[i].response_text
               /\ AnswerText(i) \in process_weather_query(frame[i].user_text.v)

\* A tasks/send request for the alerts of London was answered with them.
C13_Witness ==
    /\ Responded(1) /\ IsTaskResult(resp[1])
    /\ frame[1].user_text = JStr(LondonAlertsQuery)
    /\ Contains(AnswerText(1), "Wind Advisory")

\* A well-formed tasks/send request: an id that can be encoded and a
\* message whose parts are objects, the text found a string.
WellFormedTasksSend(b) ==
    /\ HasPartsOfObjects(b)
    /\ PyEq(b.method, "tasks/send")
    /\ IdEncodable(b)
    /\ FirstTextPartText(b).t = "str"

\* The query names no city of the weather table.
NamesNoCity(text) == \A k \in DOMAIN Cities : ~Contains(Lower(text), Cities[k])

CityTitles == << "New York", "London", "Tokyo", "Paris", "Sydney" >>

\* The query asks for a forecast or for alerts.
HasKeyword(text) ==
    \E w \in {"forecast", "alert", "warning"} : Contains(Lower(text), w)

LinesAfterFirst(text) ==
    Cardinality({k \in 1..Len(text) : SubSeq(text, k, k) = "\n"})

\* The days a query asks for, as the agent describes them.
DaysAskedFor(text) ==
    IF Contains(text, "5") \/ Contains(Lower(text), "five") THEN 5
    ELSE IF Contains(text, "7") \/ Contains(Lower(text), "week") THEN 7
    ELSE 3

\* C20: a forecast has 3, 5 or 7 days (3 by default, 5 for "5" or "five",
\* otherwise 7 for "7" or "week"), and the answer has one line per day,
\* never more than 7.
C20_ForecastDaysBounded ==
    \A i \in Slots :
        (pc[i] \in {"handled", "responded"} /\ calls[i] = 1 /\ raised[i] = NoExc
              /\ Contains(Lower(frame[i].user_text.v), "forecast")
              /\ ~NamesNoCity(frame[i].user_text.v))
            => /\ Contains(frame[i].response_text, "Weather forecast for ")
               /\ LinesAfterFirst(frame[i].response_text)
                     = DaysAskedFor(frame[i].user_text.v)
               /\ LinesAfterFirst(frame[i].response_text) \in {3, 5, 7}
               /\ Contains(HelpAnswer, "Weather forecasts (up to 7 days)")

\* Forecasts of 3, 5 and 7 days were answered; one query named both 5 and 7.
C20_Witness ==
    /\ Responded(1) /\ IsSuccess(resp[1])
    /\ frame[1].user_text = JStr("forecast for paris, 5 or 7 days")
    /\ LinesAfterFirst(AnswerText(1)) = 5

(***************************************************************************)
(* The agent card.                                                         *)
(***************************************************************************)
\* C15: the card is never written, and every document served on either
\* discovery path is the document of start-up.
C15_CardServedUnchanged ==
    /\ agent_card = AGENT_CARD
    /\ \A path \in CardPaths : served[path] \in {"", DumpCard(AGENT_CARD)}
    /\ \A p, q \in CardPaths : (served[p] # "" /\ served[q] # "") => served[p] = served[q]

\* Both paths have served the card, around requests of every outcome.
C15_Witness ==
    /\ \A path \in CardPaths : served[path] # ""
    /\ \E i, j \in Slots : /\ Responded(i) /\ IsSuccess(resp[i])
                            /\ Responded(j) /\ IsError(resp[j])
    /\ Contains(served["/.well-known/agent.json"], "\"name\":\"weather_agent\"")

(***************************************************************************)
(* Requests handled side by side.                                          *)
(***************************************************************************)
InFlight(i) == pc[i] \in {"received", "routed", "handled"}

\* The responses the handler gives to body b when it runs from its start
\* to its return with no other request around.
ResponsesAlone(b) ==
    Bind(RouteStep(b), LAMBDA routed :
        IF routed.next # "routed" THEN {routed.resp}
        ELSE UNION {IF handled.next # "handled" THEN {handled.resp}
                    ELSE {RespondStep(handled.frame).resp} :
                       handled \in HandleStep(routed.frame)})

\* C16: a request in flight can always take its next step, whatever the
\* other requests are doing; the requests in flight all complete; and a
\* response is the one the request gets when handled alone.
C16_NoRequestWaitsOnAnother ==
    /\ [](\A i \in Slots :
              /\ InFlight(i) => ENABLED Step(i)
              /\ Responded(i) => resp[i] \in ResponsesAlone(body[i]))
    /\ (\E i \in Slots : InFlight(i)) ~> (\A i \in Slots : ~InFlight(i))

\* The second request was answered with a result while the first, received
\* before it, had not been routed yet.
C16_Witness ==
    \E i, j \in Slots :
        /\ i < j
        /\ pc[i] = "received"
        /\ Responded(j) /\ IsSuccess(resp[j]) /\ calls[j] = 1

(***************************************************************************)
(* The remote clients.                                                     *)
(***************************************************************************)
\* C18: a client whose card resolution fails because the base URL is
\* unreachable has caught the failure, printed its error and returned
\* without sending a query; no exception leaves a client and no card
\* resolution stays pending.
C18_CardUnavailableEndsClient ==
    /\ [](\A c \in ClientNames :
              /\ cpc[c] # "escaped"
              /\ cfail[c] = "unreachable"
                    => /\ cpc[c] = "returned"
                       /\ sent[c] = 0
                       /\ report[c].label = "Error connecting to ADK agent")
    /\ \A c \in ClientNames : (cpc[c] = "resolving") ~> (cpc[c] \in {"running", "returned"})

\* A client has returned after its card resolution found the URL
\* unreachable.
C18_Witness ==
    \E c \in ClientNames :
        /\ cfail[c] = "unreachable" /\ cpc[c] = "returned" /\ sent[c] = 0
        /\ report[c].text = "Network communication error fetching agent card"

\* What client c does with a connectivity failure of a query: the state it
\* ends in and the line it prints.
TransportReactions(c) ==
    {<< OnException(c, o.exc).next, OnException(c, o.exc).report.label >> :
        o \in {x \in RunOutcomes : x.kind \in {"transport_error", "timeout"}}}

\* C19: a client that met a protocol-level rejection ends otherwise than
\* it does on a connectivity failure.
C19_RemoteErrorKeptDistinct ==
    \A c \in ClientNames :
        cfail[c] = "remote_error"
            => << cpc[c], report[c].label >> \notin TransportReactions(c)

(***************************************************************************)
(* The two methods side by side.                                           *)
(***************************************************************************)
\* A request that carries its parts where its method reads them, and
\* nothing else.
CarriesParts(b) ==
    /\ b.kind = "obj"
    /\ b.method \in KnownMethods
    /\ b.params = ParamsFor(b.method, MessageRead(b).parts)

\* The same parts and id sent with the other method.
Twin(b) ==
    Bind(IF PyEq(b.method, "message/send") THEN JStr("tasks/send")
         ELSE JStr("message/send"),
         LAMBDA other : ObjBody(other, ParamsFor(other, MessageRead(b).parts), b.id))

\* The text of the answer in a result envelope.
ResultText(r) ==
    IF IsTaskResult(r) THEN r.result.artifacts[1].parts[1].text
    ELSE r.result.message.parts[1].text

\* C24: the text a method answers to a parts sequence is a text the other
\* method answers to the same parts, wrapped as a message by message/send
\* and as the one artifact of a task by tasks/send; where one method
\* answers with an error, so does the other.
C24_MethodsAnswerAlike ==
    \A i \in Slots :
        (Responded(i) /\ CarriesParts(body[i]))
            => /\ IsSuccess(resp[i])
                    => /\ IsMessageResult(resp[i]) = PyEq(body[i].method, "message/send")
                       /\ IsTaskResult(resp[i]) = PyEq(body[i].method, "tasks/send")
                       /\ \E r \in ResponsesAlone(Twin(body[i])) :
                              /\ IsSuccess(r)
                              /\ IsTaskResult(r) = IsMessageResult(resp[i])
                              /\ ResultText(r) = AnswerText(i)
               /\ IsError(resp[i])
                    => \A r \in ResponsesAlone(Twin(body[i])) :
                           IsError(r) /\ r.error = resp[i].error

\* A tasks/send request with two text parts was answered as message/send
\* answers the same parts.
C24_Witness ==
    /\ Responded(1) /\ IsTaskResult(resp[1])
    /\ MessageRead(body[1]).parts =
           ListParts(<< DataPart, TextPart(LondonAlertsQuery), TextPart(TokyoQuery) >>)
    /\ \E r \in ResponsesAlone(Twin(body[1])) :
           IsMessageResult(r) /\ ResultText(r) = AnswerText(1)
    /\ Contains(AnswerText(1), "Wind Advisory")

(***************************************************************************)
(* The -32000 path and the default id.                                     *)
(***************************************************************************)
\* C25: a request whose body, params and message or task are objects and
\* whose parts are a list of objects is never answered with the error
\* -32000.
C25_ObjectPartsNeverInternalError ==
    \A i \in Slots :
        (Responded(i) /\ HasPartsOfObjects(body[i])
              /\ MessageRead(body[i]).parts.t = "list")
            => ~(IsError(resp[i]) /\ resp[i].error.code = -32000)

\* C27: on the paths that return without an exception a body with no id
\* is answered with id "1", a task with the id "task-1", as the same body
\* with id "1" is; an id the body has, null too, is echoed.
C27_MissingIdAnsweredAsOne ==
    \A i \in Slots :
        (Responded(i) /\ body[i].kind = "obj" /\ raised[i] = NoExc)
            => IF body[i].id = JAbsent
               THEN /\ resp[i].id = JStr("1")
                    /\ IsTaskResult(resp[i]) => resp[i].result.id = "task-1"
                    /\ resp[i] \in ResponsesAlone([body[i] EXCEPT !.id = JStr("1")])
               ELSE /\ resp[i].id = body[i].id
                    /\ IsTaskResult(resp[i])
                         => resp[i].result.id = "task-" \o Format(body[i].id)

\* Requests without an id were answered on the three paths, and one with
\* the id null.
C27_Witness ==
    /\ Responded(1) /\ raised[1] = NoExc
    /\ \/ body[1].id = JAbsent /\ IsTaskResult(resp[1]) /\ resp[1].result.id = "task-1"
       \/ body[1].id = JAbsent /\ IsMessageResult(resp[1]) /\ resp[1].id = JStr("1")
       \/ body[1].id = JAbsent /\ IsError(resp[1]) /\ resp[1].error.code = -32601
       \/ body[1].id = JNull /\ IsTaskResult(resp[1]) /\ resp[1].id = JNull
             /\ resp[1].result.id = "task-None"

(***************************************************************************)
(* The keyword priority and the choice of the city.                        *)
(***************************************************************************)
\* The router ran on a text and returned.
Answered(i) ==
    /\ pc[i] \in {"handled", "responded"} /\ calls[i] = 1 /\ raised[i] = NoExc
    /\ frame[i].user_text.t = "str"

StartsWith(text, prefix) ==
    Len(text) >= Len(prefix) /\ SubSeq(text, 1, Len(prefix)) = prefix

\* The skill a query asks for, by the priority of the keywords.
SkillAsked(text) ==
    IF Contains(Lower(text), "forecast") THEN "forecast"
    ELSE IF Contains(Lower(text), "alert") \/ Contains(Lower(text), "warning")
    THEN "alerts"
    ELSE IF \/ ~NamesNoCity(text)
            \/ Contains(Lower(text), "weather")
            \/ Contains(Lower(text), "temperature")
    THEN "current"
    ELSE "help"

\* The skill an answer comes from, read off its first words.
SkillOfAnswer(answer) ==
    {"forecast" : x \in {p \in {"Weather forecast for ",
                                  "Please specify a city for the forecast."} :
                            StartsWith(answer, p)}}
      \cup {"alerts" : x \in {p \in {"Weather alerts for ", "No active weather alerts for ",
                                      "Please specify a city to check for weather alerts."} :
                                StartsWith(answer, p)}}
      \cup {"current" : x \in {p \in {"Current weather in ",
                                       "Please specify a city. Available cities: "} :
                                 StartsWith(answer, p)}}
      \cup {"help" : x \in {p \in {HelpAnswer} : answer = p}}

\* The function of each skill.
FunctionOf(skill) ==
    CASE skill = "forecast" -> "get_weather_forecast"
      [] skill = "alerts" -> "get_weather_alerts"
      [] skill = "current" -> "get_current_weather"
      [] OTHER -> NoCall

\* C26: every query is answered by one skill, by the priority forecast,
\* then alert or warning, then a city or weather or temperature, then the
\* help text; in the first three a query that names no city is told to
\* specify one and no weather function is called.
C26_KeywordPriority ==
    \A i \in Slots :
        Answered(i)
            => Bind(frame[i].user_text.v, LAMBDA query :
                   /\ SkillOfAnswer(frame[i].response_text) = {SkillAsked(query)}
                   /\ WeatherCall(Lower(query), FindCity(query, Lower(query)))
                         = IF NamesNoCity(query) THEN NoCall
                           ELSE FunctionOf(SkillAsked(query))
                   /\ (NamesNoCity(query) /\ SkillAsked(query) # "help")
                         => /\ Contains(frame[i].response_text, "Please specify a city")
                            /\ frame[i].response_text
                                  \in {"Please specify a city for the forecast. Available cities: "
                                           \o AvailableCities,
                                       "Please specify a city to check for weather alerts.",
                                       "Please specify a city. Available cities: "
                                           \o AvailableCities})

\* A query with forecast and alerts got a forecast, one with weather and
\* alert got the alerts, and a keyword without a city the request to
\* specify one.
C26_Witness ==
    /\ Answered(1)
    /\ \/ frame[1].user_text = JStr("forecast and alerts for london")
             /\ StartsWith(frame[1].response_text, "Weather forecast for London:")
       \/ frame[1].user_text = JStr("weather alert for tokyo")
             /\ StartsWith(frame[1].response_text, "No active weather alerts for Tokyo")
       \/ frame[1].user_text = JStr("storm warning forecast")
             /\ StartsWith(frame[1].response_text, "Please specify a city for the forecast.")
       \/ frame[1].user_text = JStr("temperature")
             /\ StartsWith(frame[1].response_text, "Please specify a city. Available")

\* The keys of the table that occur in the lower-cased query.
CitiesNamed(text) == {k \in DOMAIN Cities : Contains(Lower(text), Cities[k])}

\* C29: the city acted on is the first key of the table, in table order,
\* that is a substring of the lower-cased query, whichever city comes
\* first in the query; it is a key of the table, and no answer says that
\* the city is unknown.
C29_FirstCityOfTable ==
    \A i \in Slots :
        (Answered(i) /\ CitiesNamed(frame[i].user_text.v) # {})
            => Bind(frame[i].user_text.v, LAMBDA query :
                 Bind(CHOOSE k \in CitiesNamed(query) :
                          \A j \in CitiesNamed(query) : k <= j, LAMBDA first :
                   /\ FindCity(query, Lower(query)) = Cities[first]
                   /\ InWeatherData(FindCity(query, Lower(query)))
                   /\ Contains(frame[i].response_text, CityTitles[first])
                   /\ \A k \in CitiesNamed(query) \ {first} :
                          ~Contains(frame[i].response_text, CityTitles[k])
                   /\ ~Contains(frame[i].response_text, "not available")))

\* Queries whose first city is not the first of the table were answered
\* for the first of the table.
C29_Witness ==
    /\ Answered(1)
    /\ \/ frame[1].user_text = JStr("tokyo or london")
             /\ StartsWith(frame[1].response_text, "Current weather in London:")
       \/ frame[1].user_text = JStr("sydney then paris forecast")
             /\ StartsWith(frame[1].response_text, "Weather forecast for Paris:")
       \/ frame[1].user_text = JStr("alerts for PARIS and New York")
             /\ Contains(frame[1].response_text, "New York")

(***************************************************************************)
(* The currency tools.                                                     *)
(***************************************************************************)
\* The three ways to a rate, for codes in upper case.
SameCode(f, t) == f = t
DirectRate(f, t) == << f, t >> \in DOMAIN EXCHANGE_RATES
RateViaUsd(f, t) ==
    /\ f # "USD" /\ t # "USD"
    /\ << f, "USD" >> \in DOMAIN EXCHANGE_RATES
    /\ << "USD", t >> \in DOMAIN EXCHANGE_RATES

\* C21: convert_currency succeeds exactly when the upper-cased codes are
\* equal, or have a direct rate, or neither is USD and both have a rate
\* with USD; identity is tried before the direct rate and that before the
\* route via USD; every other result has success False and None for the
\* converted amount and the rate; equal codes give the amount back with
\* rate 1.
C21_ConvertSuccessCases ==
    called.fn = "convert_currency"
        => Bind(<< Upper(called.args[2]), Upper(called.args[3]) >>, LAMBDA c :
             /\ returned.success
                   = (SameCode(c[1], c[2]) \/ DirectRate(c[1], c[2]) \/ RateViaUsd(c[1], c[2]))
             /\ SameCode(c[1], c[2])
                   => /\ returned.converted_amount = called.args[1]
                      /\ returned.exchange_rate = Dec(1, 0)
             /\ (~SameCode(c[1], c[2]) /\ DirectRate(c[1], c[2]))
                   => /\ returned.exchange_rate = EXCHANGE_RATES[c]
                      /\ returned.converted_amount
                            = Round(Mul(called.args[1], EXCHANGE_RATES[c]), 2)
                      /\ ~Contains(returned.message, "(via USD)")
             /\ (~SameCode(c[1], c[2]) /\ ~DirectRate(c[1], c[2]) /\ RateViaUsd(c[1], c[2]))
                   => /\ Contains(returned.message, "(via USD)")
                      /\ returned.converted_amount # PyNone
                      /\ returned.exchange_rate # PyNone
             /\ ~returned.success
                   => /\ returned.converted_amount = PyNone
                      /\ returned.exchange_rate = PyNone)

\* EUR to GBP, which has a direct rate and a route via USD, was converted
\* at the direct rate from codes in lower case.
C21_Witness ==
    /\ called = [fn |-> "convert_currency", args |-> << Dec(100, 0), "Eur", "GBP" >>]
    /\ returned.success
    /\ returned.exchange_rate = Dec(86, 2)
    /\ returned.converted_amount = Dec(86, 0)
    /\ returned.message = "100.0 EUR = 86.0 GBP"
    /\ RateViaUsd("EUR", "GBP")

\* C28: when get_exchange_rate succeeds for a pair, convert_currency
\* succeeds for that pair and every amount with the same rate;
\* get_exchange_rate succeeds only for equal codes and for pairs with a
\* direct rate, never by a route via USD.
C28_QuoteImpliesConversion ==
    /\ called.fn = "get_exchange_rate"
          => /\ returned.success
                   => \A amount \in Amounts :
                          Bind(convert_currency(amount, called.args[1], called.args[2]),
                               LAMBDA conversion :
                                  /\ conversion.success
                                  /\ conversion.exchange_rate = returned.exchange_rate)
             /\ returned.success
                   = \/ SameCode(Upper(called.args[1]), Upper(called.args[2]))
                     \/ DirectRate(Upper(called.args[1]), Upper(called.args[2]))
             /\ ~returned.success => returned.exchange_rate = PyNone
    /\ called.fn = "convert_currency"
          => Bind(get_exchange_rate(called.args[2], called.args[3]), LAMBDA quote :
                quote.success
                    => /\ returned.success
                       /\ returned.exchange_rate = quote.exchange_rate)

\* A rate was quoted that a conversion of the same pair uses, and JPY to
\* EUR, which convert_currency converts via USD, has no quote.
C28_Witness ==
    /\ called = [fn |-> "get_exchange_rate", args |-> << "Eur", "usd" >>]
    /\ returned.success
    /\ returned.exchange_rate = Dec(109, 2)
    /\ convert_currency(Dec(100, 0), "Eur", "usd").converted_amount = Dec(109, 0)
    /\ ~get_exchange_rate("jpy", "EUR").success
    /\ convert_currency(Dec(100, 0), "jpy", "EUR").success

(***************************************************************************)
(* The interactive loop of the shopping assistant.                         *)
(***************************************************************************)
\* The loop is running: at the prompt or in its await.
InLoop(at) == at \in {"prompt", "awaiting"}

\* C22: the loop ends only on quit, exit or q, in any case and with
\* spaces around, or on a keyboard interrupt; an empty line is skipped;
\* every other exception of a pass, a failure of the remote agent among
\* them, is reported and the loop is at its prompt again; and no await
\* keeps the loop for ever.
C22_LoopEndsOnlyOnQuitOrInterrupt ==
    /\ [][(InLoop(ipc) /\ ~InLoop(ipc'))
             => \/ ipc = "prompt" /\ ipc' = "quit" /\ Lower(user_input') \in QuitWords
                \/ ipc' = "interrupted" /\ iraised'.type = "KeyboardInterrupt"]_vars
    /\ [](Lower(user_input) \in QuitWords => ipc = "quit")
    /\ [][(ipc = "prompt" /\ user_input' = "" /\ iraised' = NoExc)
             => /\ ipc' = "prompt" /\ runs' = 0
                /\ local' = NoTool /\ ireport' = NoReport]_vars
    /\ [][(iraised' # NoExc /\ iraised'.type # "KeyboardInterrupt")
             => /\ ipc' = "prompt"
                /\ ireport' = [label |-> "Error", text |-> iraised'.msg]]_vars
    /\ (ipc = "awaiting") ~> (ipc # "awaiting")

\* A time-out of the remote agent was reported and the loop is at its
\* prompt.
C22_Witness ==
    /\ ipc = "prompt"
    /\ user_input = "convert 100 USD to EUR"
    /\ runs = 1
    /\ iraised.type = "A2AClientTimeoutError"
    /\ ireport = [label |-> "Error", text |-> "Client Request timed out"]

\* The branch of a line, as its words say.
BranchAsked(text) ==
    IF Contains(Lower(text), "list products") \/ Contains(Lower(text), "show products")
    THEN "list"
    ELSE IF Contains(Lower(text), "price") THEN "price"
    ELSE IF Contains(Lower(text), "cart") THEN "cart"
    ELSE IF \E w \in {"convert", "exchange", "currency", "rate", "usd", "eur", "gbp", "jpy"} :
                Contains(Lower(text), w)
    THEN "currency"
    ELSE "help"

\* The last line read was handed to the chain of branches.
WasRouted == branch \notin {"", "quit", "empty"}

\* C23: every line takes the one branch that the order list or show
\* products, price, cart, currency words, help gives it; the remote agent
\* is called at most once for a line, and only for a line with none of
\* "list products", "show products", "price", "cart" and with a currency
\* word; "list products", "price of laptop" and "cart: laptop x1" call
\* their local function and not the remote agent.
C23_OneBranchPerInput ==
    /\ runs \in {0, 1}
    /\ ipc = "awaiting" => runs = 1 /\ WasRouted
    /\ ~WasRouted => runs = 0 /\ local = NoTool
    /\ WasRouted
          => /\ branch = BranchAsked(user_input)
             /\ (runs = 1) = (branch = "currency")
             /\ (runs = 1)
                   = /\ \A w \in {"list products", "show products", "price", "cart"} :
                            ~Contains(Lower(user_input), w)
                     /\ \E w \in {"convert", "exchange", "currency", "rate",
                                  "usd", "eur", "gbp", "jpy"} :
                            Contains(Lower(user_input), w)
             /\ local # NoTool => runs = 0 /\ branch \in {"list", "price", "cart"}
             /\ user_input = "list products"
                   => local.fn = "list_products" /\ runs = 0
             /\ user_input = "price of laptop"
                   => /\ local.fn = "get_product_price" /\ runs = 0
                      /\ local.args = << "laptop" >>
             /\ user_input = "cart: laptop x1"
                   => /\ local.fn = "calculate_cart_total" /\ runs = 0
                      /\ local.args = << << [product |-> "laptop", quantity |-> 1] >> >>

\* A line with the words of two branches took the earlier one without a
\* call of the remote agent.
C23_Witness ==
    /\ user_input = "list products and convert usd"
    /\ branch = "list"
    /\ local.fn = "list_products"
    /\ runs = 0
    /\ ipc = "prompt"

====
